---- MODULE Spec2Model ----
(***************************************************************************)
(* A model of sql_fhir_library_generator: the annotation parser            *)
(* (parser.py, SQLAnnotationParser) and the FHIR Library builder           *)
(* (fhir_builder.py, FHIRLibraryBuilder).                                  *)
(*                                                                         *)
(* A Python str is a sequence of one-character strings.  A Python value is *)
(* a tagged record (MkBool, MkInt, MkFloat, MkStr, MkList, MkDict, None),  *)
(* so that True, 1 and 1.0 stay three different values, as they are for    *)
(* isinstance.                                                             *)
(***************************************************************************)
EXTENDS Integers, Sequences, FiniteSets, TLC

VARIABLES
    pc,            \* the step the call in progress has reached
    value,         \* _convert_value: the raw annotation value (a str)
    converted,     \* _convert_value: the value returned
    sql_content,   \* parse_content / build_library_from_content: the text
    comments,      \* parse_content: the regions _extract_comments returned
    comment_annotations,  \* parse_content: the annotations of each region
    annotations,   \* the annotation map (insertion-ordered)
    library,       \* build_library_from_content: the document being built
    raised,        \* the exception the call raised, "none" when it did not
    doc,           \* _remove_empty_properties: the document given
    pruned,        \* _remove_empty_properties: the documents returned
    files,         \* the file system: a mapping from path to the file's text
    file_path,     \* parse_file / build_library_from_file: the path given
    sql_files,     \* build_multiple_libraries: the paths given
    libraries,     \* build_multiple_libraries: the list returned
    caller_annotations,  \* the annotation map as the caller built it
    calls          \* the calls made on the builder so far

vars == <<pc, value, converted, sql_content, comments, comment_annotations,
          annotations,
          library, raised, doc, pruned,
          files, file_path, sql_files, libraries, caller_annotations, calls>>

\* the variables of the calls that read files
file_vars == <<files, file_path, sql_files, libraries>>

\* the variables of a series of calls on one builder
call_vars == <<caller_annotations, calls>>

(***************************************************************************)
(* Characters and the str methods the code uses.                           *)
(***************************************************************************)
UpperCase == <<"A","B","C","D","E","F","G","H","I","J","K","L","M",
               "N","O","P","Q","R","S","T","U","V","W","X","Y","Z">>
LowerCase == <<"a","b","c","d","e","f","g","h","i","j","k","l","m",
               "n","o","p","q","r","s","t","u","v","w","x","y","z">>
DigitChars == <<"0","1","2","3","4","5","6","7","8","9">>

Range(f) == {f[i] : i \in DOMAIN f}
Min(S) == CHOOSE x \in S : \A y \in S : x <= y
Max(S) == CHOOSE x \in S : \A y \in S : x >= y

isspace(c) == c \in {" ", "\t", "\n", "\r"}
isdigit(c) == c \in Range(DigitChars)
isword(c) == c \in Range(UpperCase) \cup Range(LowerCase) \cup Range(DigitChars) \cup {"_"}

DigitVal(c) == (CHOOSE i \in DOMAIN DigitChars : DigitChars[i] = c) - 1

lowerc(c) == IF c \in Range(UpperCase)
             THEN LowerCase[CHOOSE i \in DOMAIN UpperCase : UpperCase[i] = c]
             ELSE c
upperc(c) == IF c \in Range(LowerCase)
             THEN UpperCase[CHOOSE i \in DOMAIN LowerCase : LowerCase[i] = c]
             ELSE c

lower(s) == [i \in DOMAIN s |-> lowerc(s[i])]
upper(s) == [i \in DOMAIN s |-> upperc(s[i])]

\* s[a..b], empty when a > b
Slice(s, a, b) == IF a > b THEN << >> ELSE SubSeq(s, a, b)

\* str.strip(): drop leading and trailing whitespace
strip(s) ==
    LET keep == {i \in DOMAIN s : ~isspace(s[i])}
    IN  IF keep = {} THEN << >>
        ELSE LET a == CHOOSE i \in keep : \A j \in keep : i <= j
                 b == CHOOSE i \in keep : \A j \in keep : i >= j
             IN  SubSeq(s, a, b)

contains(s, c) == \E i \in DOMAIN s : s[i] = c

\* str.split(sep) for a one-character sep, from start on: "a,,b" gives
\* <<"a", "", "b">>
RECURSIVE split(_, _, _)
split(s, sep, start) ==
    LET hits == {i \in start..Len(s) : s[i] = sep}
    IN  IF hits = {} THEN << Slice(s, start, Len(s)) >>
        ELSE << Slice(s, start, Min(hits) - 1) >> \o split(s, sep, Min(hits) + 1)

\* str.split() with no argument, from start on: the maximal runs of
\* non-whitespace
RECURSIVE splitws(_, _)
splitws(s, start) ==
    LET keep == {i \in start..Len(s) : ~isspace(s[i])}
    IN  IF keep = {} THEN << >>
        ELSE LET a == Min(keep)
                 stop == {i \in a..Len(s) : isspace(s[i])}
                 b == IF stop = {} THEN Len(s) ELSE Min(stop) - 1
             IN  << SubSeq(s, a, b) >> \o splitws(s, b + 1)

\* sep.join(parts)
RECURSIVE join(_, _)
join(sep, parts) ==
    IF parts = << >> THEN << >>
    ELSE IF Len(parts) = 1 THEN parts[1]
    ELSE parts[1] \o sep \o join(sep, Tail(parts))

(***************************************************************************)
(* Python values.                                                          *)
(***************************************************************************)
None == [t |-> "none"]
MkBool(b) == [t |-> "bool", b |-> b]
MkInt(i) == [t |-> "int", i |-> i]
\* a float: (-1)^neg * m * 10^e, m not a multiple of 10 unless m = 0;
\* k is "fin", "inf" or "nan"
MkFloat(k, neg, m, e) == [t |-> "float", k |-> k, neg |-> neg, m |-> m, e |-> e]
MkStr(s) == [t |-> "str", s |-> s]
MkList(l) == [t |-> "list", l |-> l]
MkDict(d) == [t |-> "dict", d |-> d]

isinstance(v, ty) == v.t = ty

(***************************************************************************)
(* int(str) and float(str), as _convert_value calls them.                  *)
(***************************************************************************)
\* digit (["_"] digit)* : the digit part of a Python numeric literal
isdigitpart(s) ==
    /\ Len(s) >= 1
    /\ isdigit(s[1]) /\ isdigit(s[Len(s)])
    /\ \A i \in DOMAIN s : isdigit(s[i]) \/ s[i] = "_"
    /\ \A i \in 1..(Len(s) - 1) : ~(s[i] = "_" /\ s[i + 1] = "_")

RECURSIVE digitsvalue(_)
digitsvalue(s) ==
    IF s = << >> THEN 0
    ELSE LET front == SubSeq(s, 1, Len(s) - 1)
             c == s[Len(s)]
         IN  IF c = "_" THEN digitsvalue(front)
             ELSE 10 * digitsvalue(front) + DigitVal(c)

unsigned(s) == IF Len(s) >= 1 /\ s[1] \in {"+", "-"} THEN Tail(s) ELSE s
isneg(s) == Len(s) >= 1 /\ s[1] = "-"

\* int(s) does not raise ValueError
int_parses(s) == isdigitpart(unsigned(strip(s)))
int_value(s) ==
    LET v == digitsvalue(unsigned(strip(s)))
    IN  IF isneg(strip(s)) THEN 0 - v ELSE v

\* the parts of a decimal float literal, mantissa [("e"|"E") exponent], the
\* mantissa split at its first "."
float_parts(u) ==
    LET expat == {i \in DOMAIN u : u[i] \in {"e", "E"}}
        m == IF expat = {} THEN u ELSE Slice(u, 1, Min(expat) - 1)
        dotat == {i \in DOMAIN m : m[i] = "."}
    IN  [hasexp |-> expat # {},
         exponent |-> IF expat = {} THEN << >> ELSE Slice(u, Min(expat) + 1, Len(u)),
         dots |-> Cardinality(dotat),
         intpart |-> IF dotat = {} THEN m ELSE Slice(m, 1, Min(dotat) - 1),
         fracpart |-> IF dotat = {} THEN << >> ELSE Slice(m, Min(dotat) + 1, Len(m))]

FloatWords == { <<"i","n","f">>, <<"i","n","f","i","n","i","t","y">>, <<"n","a","n">> }

\* float(s) does not raise ValueError
float_parses(s) ==
    LET u == unsigned(strip(s))
        p == float_parts(u)
    IN  \/ lower(u) \in FloatWords
        \/ /\ p.dots <= 1
           /\ p.intpart = << >> \/ isdigitpart(p.intpart)
           /\ p.fracpart = << >> \/ isdigitpart(p.fracpart)
           /\ p.intpart # << >> \/ p.fracpart # << >>
           /\ p.hasexp => isdigitpart(unsigned(p.exponent))

RECURSIVE normalize(_, _)
normalize(m, e) ==
    IF m = 0 THEN <<0, 0>>
    ELSE IF m % 10 = 0 THEN normalize(m \div 10, e + 1)
    ELSE <<m, e>>

RECURSIVE numdigits(_)
numdigits(n) == IF n < 10 THEN 1 ELSE 1 + numdigits(n \div 10)

\* the range of a double: DBL_MAX is 1.79769313...e308, and a value below
\* half the least subnormal, 2.47e-324, rounds to zero (subnormals keep
\* their decimal digits here)
MaxDecPt == 309
MaxLead == 179769313
MinDecPt == -323
MinLead == 247000000

\* the first nine digits of m
RECURSIVE lead9(_)
lead9(m) == IF m >= 1000000000 THEN lead9(m \div 10)
            ELSE IF m < 100000000 THEN lead9(m * 10)
            ELSE m

float_value(s) ==
    LET u == unsigned(strip(s))
        neg == isneg(strip(s))
        p == float_parts(u)
        ex == IF ~p.hasexp THEN 0
              ELSE IF isneg(p.exponent) THEN 0 - digitsvalue(unsigned(p.exponent))
              ELSE digitsvalue(unsigned(p.exponent))
        fracdigits == Cardinality({i \in DOMAIN p.fracpart : isdigit(p.fracpart[i])})
        n == normalize(digitsvalue(p.intpart \o p.fracpart), ex - fracdigits)
        decpt == numdigits(n[1]) + n[2]
        overflows ==
            n[1] # 0 /\ (decpt > MaxDecPt \/ (decpt = MaxDecPt /\ lead9(n[1]) > MaxLead))
        underflows ==
            n[1] # 0 /\ (decpt < MinDecPt \/ (decpt = MinDecPt /\ lead9(n[1]) <= MinLead))
    IN  IF lower(u) = <<"n","a","n">> THEN MkFloat("nan", FALSE, 0, 0)
        ELSE IF lower(u) \in FloatWords THEN MkFloat("inf", neg, 0, 0)
        ELSE IF overflows THEN MkFloat("inf", neg, 0, 0)
        ELSE IF underflows THEN MkFloat("fin", neg, 0, 0)
        ELSE MkFloat("fin", neg, n[1], n[2])

(***************************************************************************)
(* SQLAnnotationParser._convert_value                                      *)
(***************************************************************************)
TrueWords == { <<"t","r","u","e">>, <<"y","e","s">>, <<"o","n">>, <<"1">> }
FalseWords == { <<"f","a","l","s","e">>, <<"n","o">>, <<"o","f","f">>, <<"0">> }

\* the test without lower(): an upper-case exponent goes to int()
is_integer_form_case_sensitive(v) == ~contains(v, ".") /\ ~contains(v, "e")

\* "." not in value and "e" not in value.lower()
is_integer_form(v) == ~contains(v, ".") /\ ~contains(lower(v), "e")

\* value wrapped in a pair of double quotes or of single quotes
is_quoted(v) ==
    /\ Len(v) >= 1
    /\ \/ v[1] = "\"" /\ v[Len(v)] = "\""
       \/ v[1] = "'" /\ v[Len(v)] = "'"

\* the try block: TRUE when int() or float() returns
numeric_parses(v) ==
    IF is_integer_form(v) THEN int_parses(v) ELSE float_parses(v)
numeric_value(v) ==
    IF is_integer_form(v) THEN MkInt(int_value(v)) ELSE float_value(v)

RECURSIVE _convert_value(_)
\* the numeric try block moved before the boolean words
_convert_value_numeric_first(raw) ==
    LET v == strip(raw)
    IN  IF numeric_parses(v) THEN numeric_value(v)
        ELSE IF lower(v) \in TrueWords THEN MkBool(TRUE)
        ELSE IF lower(v) \in FalseWords THEN MkBool(FALSE)
        ELSE IF contains(v, ",")
             THEN LET items == split(v, ",", 1)
                  IN  MkList([i \in DOMAIN items |-> _convert_value(strip(items[i]))])
        ELSE IF is_quoted(v) THEN MkStr(Slice(v, 2, Len(v) - 1))
        ELSE MkStr(v)

_convert_value(raw) ==
    LET v == strip(raw)
    IN  IF lower(v) \in TrueWords THEN MkBool(TRUE)
        ELSE IF lower(v) \in FalseWords THEN MkBool(FALSE)
        ELSE IF numeric_parses(v) THEN numeric_value(v)
        ELSE IF contains(v, ",")
             THEN LET items == split(v, ",", 1)
                  IN  MkList([i \in DOMAIN items |-> _convert_value(strip(items[i]))])
        ELSE IF is_quoted(v) THEN MkStr(Slice(v, 2, Len(v) - 1))
        ELSE MkStr(v)

(***************************************************************************)
(* The three compiled patterns of SQLAnnotationParser.__init__, matched    *)
(* the way re.finditer matches them: leftmost first, greedy and lazy       *)
(* quantifiers in backtracking order, the next search starting where the   *)
(* last match ended.                                                       *)
(***************************************************************************)
\* where a greedy \s* started at j stops: the first position that holds no
\* whitespace (Len(s) + 1 at the end of the text)
RECURSIVE wsend(_, _)
wsend(s, j) == IF j > Len(s) \/ ~isspace(s[j]) THEN j ELSE wsend(s, j + 1)
\* where a greedy \w+ started at j stops
RECURSIVE wordend(_, _)
wordend(s, j) == IF j > Len(s) \/ ~isword(s[j]) THEN j ELSE wordend(s, j + 1)
\* where a greedy .+ started at j stops ("." matches all but a line feed)
RECURSIVE lineend(_, _)
lineend(s, j) == IF j > Len(s) \/ s[j] = "\n" THEN j ELSE lineend(s, j + 1)
\* where [^@\n\r]+ started at j has to stop
RECURSIVE valuestop(_, _)
valuestop(s, j) ==
    IF j > Len(s) \/ s[j] \in {"@", "\n", "\r"} THEN j ELSE valuestop(s, j + 1)

at2(s, i, c1, c2) == i >= 1 /\ i + 1 <= Len(s) /\ s[i] = c1 /\ s[i + 1] = c2

\* single_line_comment_pattern, --\s*(.+) : after "--" at pos, (.+) starts
\* where \s* stops, or before that when \s* has to give whitespace back so
\* that "." has a character
RECURSIVE single_line_comments(_, _)
single_line_comments(s, pos) ==
    LET starts == {p \in (pos + 2)..wsend(s, pos + 2) : p <= Len(s) /\ s[p] # "\n"}
    IN  IF pos > Len(s) THEN << >>
        ELSE IF ~(at2(s, pos, "-", "-") /\ starts # {})
             THEN single_line_comments(s, pos + 1)
        ELSE LET p == Max(starts)
                 q == lineend(s, p)
             IN  << strip(SubSeq(s, p, q - 1)) >> \o single_line_comments(s, q)

\* multi_line_comment_pattern, /\*\s*(.*?)\s*\*/ with DOTALL: "/*" at i is
\* closed by the first "*/" that starts at i + 2 or later (0 when none)
RECURSIVE block_closer(_, _)
block_closer(s, c) ==
    IF c > Len(s) THEN 0
    ELSE IF at2(s, c, "*", "/") THEN c
    ELSE block_closer(s, c + 1)

RECURSIVE multi_line_comments(_, _)
multi_line_comments(s, pos) ==
    IF pos > Len(s) THEN << >>
    ELSE IF ~(at2(s, pos, "/", "*") /\ block_closer(s, pos + 2) # 0)
         THEN multi_line_comments(s, pos + 1)
    ELSE LET c == block_closer(s, pos + 2)
         IN  << strip(Slice(s, pos + 2, c - 1)) >> \o multi_line_comments(s, c + 2)

\* a scan that takes the whole text for one region when it finds no comment
_extract_comments_or_text(s) ==
    IF single_line_comments(s, 1) \o multi_line_comments(s, 1) = << >>
    THEN << strip(s) >>
    ELSE single_line_comments(s, 1) \o multi_line_comments(s, 1)

\* a scan that takes the block comments first
_extract_comments_blocks_first(s) ==
    multi_line_comments(s, 1) \o single_line_comments(s, 1)

\* _extract_comments: every line comment, then every block comment
_extract_comments(s) == single_line_comments(s, 1) \o multi_line_comments(s, 1)

\* annotation_pattern: @(\w+)(?:\s*[:=]\s*|\s+)([^@\n\r]+?)(?=@|\s*(?:--|\*/|$))
\* with MULTILINE.  The lookahead at e:
lookahead(t, e) ==
    \/ e <= Len(t) /\ t[e] = "@"
    \/ \E w \in e..wsend(t, e) :
          \/ at2(t, w, "-", "-")
          \/ at2(t, w, "*", "/")
          \/ w = Len(t) + 1
          \/ t[w] = "\n"

\* where the lazy value that starts at p ends; 0 when it cannot match there
value_end(t, p) ==
    LET stop == valuestop(t, p)
        ends == {e \in (p + 1)..stop : lookahead(t, e)}
    IN  IF ends = {} THEN 0 ELSE Min(ends)

\* where the value starts after the key that ends before kend: the first
\* alternative, \s*[:=]\s*, is tried before the second, \s+, and each gives
\* whitespace back until the value matches; 0 when none does
value_start(t, kend) ==
    LET a == wsend(t, kend)
        colon_starts ==
            IF a <= Len(t) /\ t[a] \in {":", "="}
            THEN {p \in (a + 1)..wsend(t, a + 1) : value_end(t, p) # 0}
            ELSE {}
        space_starts == {p \in (kend + 1)..wsend(t, kend) : value_end(t, p) # 0}
    IN  IF colon_starts # {} THEN Max(colon_starts)
        ELSE IF space_starts # {} THEN Max(space_starts)
        ELSE 0

\* finditer(comment_text): the (key, value) groups of the matches, in order
RECURSIVE annotation_matches(_, _)
annotation_matches(t, pos) ==
    IF pos > Len(t) THEN << >>
    ELSE IF ~(t[pos] = "@" /\ wordend(t, pos + 1) > pos + 1
              /\ value_start(t, wordend(t, pos + 1)) # 0)
         THEN annotation_matches(t, pos + 1)
    ELSE LET kend == wordend(t, pos + 1)
             p == value_start(t, kend)
             e == value_end(t, p)
         IN  << [key |-> SubSeq(t, pos + 1, kend - 1),
                 value |-> SubSeq(t, p, e - 1)] >>
             \o annotation_matches(t, e)

(***************************************************************************)
(* A dict: the sequence of its items, in insertion order.                  *)
(***************************************************************************)
has_key(d, k) == \E i \in DOMAIN d : d[i].k = k
get(d, k) == d[CHOOSE i \in DOMAIN d : d[i].k = k].v
\* d[k] = v: a key the dict holds keeps its place
put(d, k, v) ==
    IF has_key(d, k)
    THEN [i \in DOMAIN d |-> IF d[i].k = k THEN [k |-> k, v |-> v] ELSE d[i]]
    ELSE Append(d, [k |-> k, v |-> v])
keys(d) == [i \in DOMAIN d |-> d[i].k]

(***************************************************************************)
(* SQLAnnotationParser._parse_annotations_from_text and parse_content      *)
(***************************************************************************)
\* the value as a list: itself when it is one, else the list that holds it
aslist(v) == IF isinstance(v, "list") THEN v.l ELSE << v >>

\* one turn of the loop over the matches: append to the value the key
\* holds (the list object itself when it is one), else store
add_annotation(d, key, converted_value) ==
    IF has_key(d, key)
    THEN put(d, key, MkList(Append(aslist(get(d, key)), converted_value)))
    ELSE put(d, key, converted_value)

RECURSIVE fold_matches(_, _)
fold_matches(d, ms) ==
    IF ms = << >> THEN d
    ELSE fold_matches(add_annotation(d, strip(ms[1].key),
                                     _convert_value(strip(ms[1].value))),
                      Tail(ms))

_parse_annotations_from_text(comment_text) ==
    fold_matches(<< >>, annotation_matches(comment_text, 1))

\* a merge in which the value of the later region replaces the earlier one
merge_value_last_wins(d, key, v) == put(d, key, v)

\* a merge that appends the value of the later region as one element
merge_value_appended(d, key, v) ==
    IF has_key(d, key)
    THEN put(d, key, MkList(Append(aslist(get(d, key)), v)))
    ELSE put(d, key, v)

\* the merge of one region's value into the annotations
merge_value(d, key, v) ==
    IF has_key(d, key)
    THEN put(d, key, MkList(aslist(get(d, key)) \o aslist(v)))
    ELSE put(d, key, v)

RECURSIVE merge_items(_, _)
merge_items(d, items) ==
    IF items = << >> THEN d
    ELSE merge_items(merge_value(d, items[1].k, items[1].v), Tail(items))

\* the loop over the comments: comment_annotations of every region, merged
\* in the order of the regions
region_annotations(cs) == [i \in DOMAIN cs |-> _parse_annotations_from_text(cs[i])]

RECURSIVE merge_comments(_, _)
merge_comments(d, ras) ==
    IF ras = << >> THEN d
    ELSE merge_comments(merge_items(d, ras[1]), Tail(ras))

parse_content(s) == merge_comments(<< >>, region_annotations(_extract_comments(s)))

(***************************************************************************)
(* str(value) and repr(value), as the f-strings, str() and join() of the   *)
(* builder produce them.                                                   *)
(***************************************************************************)
RECURSIVE intdigits(_)
intdigits(n) ==
    IF n < 10 THEN << DigitChars[n + 1] >>
    ELSE Append(intdigits(n \div 10), DigitChars[(n % 10) + 1])
intstr(n) == IF n < 0 THEN <<"-">> \o intdigits(0 - n) ELSE intdigits(n)

zeros(n) == [i \in 1..n |-> "0"]

\* repr(float): positional notation while -4 < decpt <= 16, else scientific
\* with an exponent of two digits at least
floatstr(f) ==
    LET sign == IF f.neg THEN <<"-">> ELSE << >>
        D == intdigits(f.m)
        k == Len(D)
        decpt == k + f.e
        ex == decpt - 1
        exdigits == IF ex < 0 THEN intdigits(0 - ex) ELSE intdigits(ex)
    IN  IF f.k = "nan" THEN <<"n", "a", "n">>
        ELSE IF f.k = "inf" THEN sign \o <<"i", "n", "f">>
        ELSE IF f.m = 0 THEN sign \o <<"0", ".", "0">>
        ELSE IF decpt > -4 /\ decpt <= 16
             THEN IF decpt <= 0 THEN sign \o <<"0", ".">> \o zeros(0 - decpt) \o D
                  ELSE IF decpt >= k THEN sign \o D \o zeros(decpt - k) \o <<".", "0">>
                  ELSE sign \o SubSeq(D, 1, decpt) \o <<".">> \o SubSeq(D, decpt + 1, k)
        ELSE sign \o << D[1] >>
             \o (IF k > 1 THEN <<".">> \o SubSeq(D, 2, k) ELSE << >>)
             \o <<"e">> \o (IF ex < 0 THEN <<"-">> ELSE <<"+">>)
             \o (IF Len(exdigits) < 2 THEN <<"0">> ELSE << >>) \o exdigits

\* repr(str): single quotes unless the str holds a single quote and no
\* double quote; the quote, the backslash and the control characters escaped
RECURSIVE escapedstr(_, _)
escapedstr(s, q) ==
    IF s = << >> THEN << >>
    ELSE (IF s[1] = "\\" THEN <<"\\", "\\">>
          ELSE IF s[1] = q THEN <<"\\", q>>
          ELSE IF s[1] = "\n" THEN <<"\\", "n">>
          ELSE IF s[1] = "\r" THEN <<"\\", "r">>
          ELSE IF s[1] = "\t" THEN <<"\\", "t">>
          ELSE << s[1] >>)
         \o escapedstr(Tail(s), q)
strrepr(s) ==
    LET q == IF contains(s, "'") /\ ~contains(s, "\"") THEN "\"" ELSE "'"
    IN  << q >> \o escapedstr(s, q) \o << q >>

RECURSIVE pyrepr(_)
pyrepr(v) ==
    IF isinstance(v, "none") THEN <<"N", "o", "n", "e">>
    ELSE IF isinstance(v, "bool")
         THEN (IF v.b THEN <<"T", "r", "u", "e">> ELSE <<"F", "a", "l", "s", "e">>)
    ELSE IF isinstance(v, "int") THEN intstr(v.i)
    ELSE IF isinstance(v, "float") THEN floatstr(v)
    ELSE IF isinstance(v, "str") THEN strrepr(v.s)
    ELSE <<"[">> \o join(<<",", " ">>, [i \in DOMAIN v.l |-> pyrepr(v.l[i])]) \o <<"]">>

\* str(v)
pystr(v) == IF isinstance(v, "str") THEN v.s ELSE pyrepr(v)

\* bool(v): the truth value an if statement tests
truthy(v) ==
    IF isinstance(v, "none") THEN FALSE
    ELSE IF isinstance(v, "bool") THEN v.b
    ELSE IF isinstance(v, "int") THEN v.i # 0
    ELSE IF isinstance(v, "float") THEN v.k # "fin" \/ v.m # 0
    ELSE IF isinstance(v, "str") THEN v.s # << >>
    ELSE IF isinstance(v, "list") THEN v.l # << >>
    ELSE v.d # << >>

(***************************************************************************)
(* base64.b64encode(sql_content.encode('utf-8')).decode('utf-8'), for the  *)
(* ASCII characters.                                                       *)
(***************************************************************************)
\* the characters of codes 32 to 126; the place of the grave accent (code
\* 96) holds a placeholder, no text of the inputs below holding that character
Printable == <<" ","!","\"","#","$","%","&","'","(",")","*","+",",","-",".","/","0","1","2","3","4","5","6","7","8","9",":",";","<","=",">","?","@","A","B","C","D","E","F","G","H","I","J","K","L","M","N","O","P","Q","R","S","T","U","V","W","X","Y","Z","[","\\","]","^","_","<grave>","a","b","c","d","e","f","g","h","i","j","k","l","m","n","o","p","q","r","s","t","u","v","w","x","y","z","{","|","}","~">>
ord(c) ==
    IF c = "\t" THEN 9
    ELSE IF c = "\n" THEN 10
    ELSE IF c = "\r" THEN 13
    ELSE 31 + (CHOOSE i \in DOMAIN Printable : Printable[i] = c)
Base64Chars == <<"A","B","C","D","E","F","G","H","I","J","K","L","M","N","O","P","Q","R","S","T","U","V","W","X","Y","Z","a","b","c","d","e","f","g","h","i","j","k","l","m","n","o","p","q","r","s","t","u","v","w","x","y","z","0","1","2","3","4","5","6","7","8","9","+","/">>

RECURSIVE b64encode(_)
b64encode(s) ==
    IF s = << >> THEN << >>
    ELSE LET a == ord(s[1])
             b == IF Len(s) >= 2 THEN ord(s[2]) ELSE 0
             c == IF Len(s) >= 3 THEN ord(s[3]) ELSE 0
             n == (a * 65536) + (b * 256) + c
             sextet(k) == Base64Chars[k + 1]
         IN  << sextet(n \div 262144), sextet((n \div 4096) % 64) >>
             \o (IF Len(s) >= 2 THEN << sextet((n \div 64) % 64) >> ELSE <<"=">>)
             \o (IF Len(s) >= 3 THEN << sextet(n % 64) >> ELSE <<"=">>)
             \o (IF Len(s) > 3 THEN b64encode(SubSeq(s, 4, Len(s))) ELSE << >>)

(***************************************************************************)
(* FHIRLibraryBuilder._camel_case_title                                    *)
(***************************************************************************)
\* the first letter uppercased, the rest as it was written
capitalized_first_only(word) ==
    << upperc(word[1]) >> \o Tail(word)

\* word[0].upper() + word[1:].lower()
capitalized(word) ==
    << upperc(word[1]) >> \o lower(Tail(word))

\* re.sub(r'[^\w\s]', ' ', title), then re.sub(r'_', ' ', cleaned), then the
\* words capitalized and joined
_camel_case_title(title) ==
    LET cleaned == [i \in DOMAIN title |->
                       IF (~isword(title[i]) /\ ~isspace(title[i])) \/ title[i] = "_"
                       THEN " " ELSE title[i]]
        words == splitws(cleaned, 1)
    IN  join(<< >>, [i \in DOMAIN words |-> capitalized(words[i])])

(***************************************************************************)
(* FHIRLibraryBuilder._remove_empty_properties                             *)
(***************************************************************************)
RECURSIVE is_empty(_)
is_empty(val) ==
    IF isinstance(val, "none") THEN TRUE
    ELSE IF isinstance(val, "str") THEN strip(val.s) = << >>
    ELSE IF isinstance(val, "list")
         THEN val.l = << >> \/ \A i \in DOMAIN val.l : is_empty(val.l[i])
    ELSE IF isinstance(val, "dict")
         THEN val.d = << >> \/ \A i \in DOMAIN val.d : is_empty(val.d[i].v)
    ELSE FALSE

RECURSIVE clean_dict(_)
RECURSIVE clean_list(_)
RECURSIVE clean_items(_)

\* the loop over the items of a list value: cleaned_list
clean_list(val) ==
    IF val = << >> THEN << >>
    ELSE LET item == val[1]
         IN  (IF isinstance(item, "dict")
              THEN LET cleaned_item == clean_dict(item)
                   IN  IF ~is_empty(cleaned_item) THEN << cleaned_item >> ELSE << >>
              ELSE IF ~is_empty(item) THEN << item >> ELSE << >>)
             \o clean_list(Tail(val))

\* a loop that tests a nested mapping for entries before it cleans it,
\* where the code tests the cleaned mapping
RECURSIVE clean_items_tested_first(_)
clean_items_tested_first(items) ==
    IF items = << >> THEN << >>
    ELSE LET key == items[1].k
             val == items[1].v
         IN  (IF isinstance(val, "dict")
              THEN IF val.d # << >>
                   THEN << [k |-> key, v |-> clean_dict(val)] >> ELSE << >>
              ELSE IF isinstance(val, "list")
              THEN LET cleaned_list == clean_list(val.l)
                   IN  IF cleaned_list # << >>
                       THEN << [k |-> key, v |-> MkList(cleaned_list)] >> ELSE << >>
              ELSE IF ~is_empty(val) THEN << items[1] >> ELSE << >>)
             \o clean_items_tested_first(Tail(items))

\* the loop over d.items(): cleaned
clean_items(items) ==
    IF items = << >> THEN << >>
    ELSE LET key == items[1].k
             val == items[1].v
         IN  (IF isinstance(val, "dict")
              THEN LET cleaned_value == clean_dict(val)
                   IN  IF ~is_empty(cleaned_value)
                       THEN << [k |-> key, v |-> cleaned_value] >> ELSE << >>
              ELSE IF isinstance(val, "list")
              THEN LET cleaned_list == clean_list(val.l)
                   IN  IF cleaned_list # << >>
                       THEN << [k |-> key, v |-> MkList(cleaned_list)] >> ELSE << >>
              ELSE IF ~is_empty(val) THEN << items[1] >> ELSE << >>)
             \o clean_items(Tail(items))

clean_dict(d) == IF ~isinstance(d, "dict") THEN d ELSE MkDict(clean_items(d.d))

_remove_empty_properties(d) == clean_dict(d)

(***************************************************************************)
(* FHIRLibraryBuilder._format_date: datetime.strptime with each of the     *)
(* common formats, then strftime("%Y-%m-%d").  strptime compiles a format  *)
(* to a regular expression whose directives are alternations tried in      *)
(* order, matches it at the start of the string, and rejects a match that  *)
(* leaves characters over.                                                 *)
(***************************************************************************)
Digits(a, b) == {DigitChars[n + 1] : n \in a..b}

\* the alternatives of a directive, each a sequence of character classes
directive(d) ==
    CASE d = "Y" -> << <<Digits(0, 9), Digits(0, 9), Digits(0, 9), Digits(0, 9)>> >>
      [] d = "m" -> << <<{"1"}, Digits(0, 2)>>, <<{"0"}, Digits(1, 9)>>, <<Digits(1, 9)>> >>
      [] d = "d" -> << <<{"3"}, Digits(0, 1)>>, <<Digits(1, 2), Digits(0, 9)>>,
                       <<{"0"}, Digits(1, 9)>>, <<Digits(1, 9)>>, <<{" "}, Digits(1, 9)>> >>
      [] d = "H" -> << <<{"2"}, Digits(0, 3)>>, <<Digits(0, 1), Digits(0, 9)>>, <<Digits(0, 9)>> >>
      [] d = "M" -> << <<Digits(0, 5), Digits(0, 9)>>, <<Digits(0, 9)>> >>
      [] d = "S" -> << <<{"6"}, Digits(0, 1)>>, <<Digits(0, 5), Digits(0, 9)>>, <<Digits(0, 9)>> >>

\* the formats: directives, literal characters, and the space of the last
\* one, which strptime compiles to \s+
common_formats ==
    LET Dir(d) == [kind |-> "dir", c |-> d]
        Lit(c) == [kind |-> "lit", c |-> c]
        Ws == [kind |-> "ws", c |-> " "]
    IN
    << << Dir("Y"), Lit("-"), Dir("m"), Lit("-"), Dir("d") >>,
       << Dir("Y"), Lit("/"), Dir("m"), Lit("/"), Dir("d") >>,
       << Dir("m"), Lit("/"), Dir("d"), Lit("/"), Dir("Y") >>,
       << Dir("d"), Lit("/"), Dir("m"), Lit("/"), Dir("Y") >>,
       << Dir("Y"), Lit("-"), Dir("m"), Lit("-"), Dir("d"), Lit("T"),
          Dir("H"), Lit(":"), Dir("M"), Lit(":"), Dir("S") >>,
       << Dir("Y"), Lit("-"), Dir("m"), Lit("-"), Dir("d"), Ws,
          Dir("H"), Lit(":"), Dir("M"), Lit(":"), Dir("S") >> >>

NoMatch == [ok |-> FALSE, end |-> 0, groups |-> << >>]

\* the first match, in backtracking order, of fmt[i..] at s[pos..]
RECURSIVE format_match(_, _, _, _)
RECURSIVE directive_match(_, _, _, _, _)
RECURSIVE space_match(_, _, _, _, _)
format_match(fmt, i, s, pos) ==
    IF i > Len(fmt) THEN [ok |-> TRUE, end |-> pos, groups |-> << >>]
    ELSE IF fmt[i].kind = "lit"
         THEN IF pos <= Len(s) /\ lowerc(s[pos]) = lowerc(fmt[i].c)
              THEN format_match(fmt, i + 1, s, pos + 1)
              ELSE NoMatch
    ELSE IF fmt[i].kind = "ws"
         THEN space_match(fmt, i, s, pos, wsend(s, pos) - pos)
    ELSE directive_match(fmt, i, s, pos, 1)
\* the alternatives a, a + 1, ... of the directive fmt[i]
directive_match(fmt, i, s, pos, a) ==
    LET alts == directive(fmt[i].c)
        last == pos + Len(alts[a]) - 1
    IN  IF a > Len(alts) THEN NoMatch
        ELSE IF last <= Len(s) /\ \A k \in DOMAIN alts[a] : s[pos + k - 1] \in alts[a][k]
             THEN LET rest == format_match(fmt, i + 1, s, last + 1)
                  IN  IF rest.ok
                      THEN [ok |-> TRUE, end |-> rest.end,
                            groups |-> << [d |-> fmt[i].c, v |-> SubSeq(s, pos, last)] >>
                                       \o rest.groups]
                      ELSE directive_match(fmt, i, s, pos, a + 1)
        ELSE directive_match(fmt, i, s, pos, a + 1)
\* \s+ taking n characters, then n - 1, ... down to one
space_match(fmt, i, s, pos, n) ==
    IF n < 1 THEN NoMatch
    ELSE LET rest == format_match(fmt, i + 1, s, pos + n)
         IN  IF rest.ok THEN rest ELSE space_match(fmt, i, s, pos, n - 1)

group(groups, d) ==
    IF \E i \in DOMAIN groups : groups[i].d = d
    THEN digitsvalue(strip(groups[CHOOSE i \in DOMAIN groups : groups[i].d = d].v))
    ELSE 0

\* datetime.strptime(date_str, fmt): the date, or ok = FALSE for ValueError
strptime(date_str, fmt) ==
    LET found == format_match(fmt, 1, date_str, 1)
        year == group(found.groups, "Y")
        month == group(found.groups, "m")
        day == group(found.groups, "d")
        second == group(found.groups, "S")
        isleap == year % 4 = 0 /\ (year % 100 # 0 \/ year % 400 = 0)
        days_in_month == IF month = 2 THEN (IF isleap THEN 29 ELSE 28)
                         ELSE IF month \in {4, 6, 9, 11} THEN 30 ELSE 31
    IN  IF /\ found.ok
           /\ found.end = Len(date_str) + 1
           /\ year >= 1
           /\ day <= days_in_month
           /\ second <= 59
        THEN [ok |-> TRUE, year |-> year, month |-> month, day |-> day]
        ELSE [ok |-> FALSE, year |-> 0, month |-> 0, day |-> 0]

\* strftime("%Y-%m-%d"); the C library writes the year without padding
strftime(date) ==
    LET pad2(n) == IF n < 10 THEN <<"0">> \o intdigits(n) ELSE intdigits(n)
    IN  intdigits(date.year) \o <<"-">> \o pad2(date.month) \o <<"-">> \o pad2(date.day)

RECURSIVE format_date_from(_, _)
format_date_from(date_str, f) ==
    IF f > Len(common_formats) THEN date_str
    ELSE IF strptime(date_str, common_formats[f]).ok
    THEN strftime(strptime(date_str, common_formats[f]))
    ELSE format_date_from(date_str, f + 1)
_format_date(date_str) == format_date_from(date_str, 1)

(***************************************************************************)
(* FHIRLibraryBuilder: the formatters and the key table                    *)
(***************************************************************************)
Item(k, v) == [k |-> k, v |-> v]

_format_contact(contact_str) ==
    MkList(<< MkDict(<< Item("name", MkStr(contact_str)),
                        Item("telecom", MkList(<< >>)) >>) >>)

_format_identifier(identifier_str) ==
    MkDict(<< Item("value", MkStr(identifier_str)),
              Item("system", MkStr(<<"h","t","t","p",":","/","/","e","x","a","m","p","l","e",".","o","r","g","/","s","q","l","-","l","i","b","r","a","r","y","-","i","d","e","n","t","i","f","i","e","r","s">>)) >>)

_format_jurisdiction(jurisdiction) ==
    LET parts == IF isinstance(jurisdiction, "str")
                 THEN split(jurisdiction.s, ",", 1)
                 ELSE [i \in DOMAIN jurisdiction.l |-> pystr(jurisdiction.l[i])]
        kept == IF isinstance(jurisdiction, "str")
                THEN SelectSeq(parts, LAMBDA j : strip(j) # << >>)
                ELSE SelectSeq(jurisdiction.l,
                               LAMBDA j : truthy(j) /\ strip(pystr(j)) # << >>)
        stripped == IF isinstance(jurisdiction, "str")
                    THEN [i \in DOMAIN kept |-> strip(kept[i])]
                    ELSE [i \in DOMAIN kept |-> strip(kept[i].s)]
        jurisdictions == SelectSeq(stripped, LAMBDA j : j # << >>)
    IN  MkList([i \in DOMAIN jurisdictions |->
            LET j == jurisdictions[i]
            IN  MkDict(<< Item("coding", MkList(<< MkDict(<<
                    Item("system", MkStr(<<"u","r","n",":","i","s","o",":","s","t","d",":","i","s","o",":","3","1","6","6">>)),
                    Item("code", MkStr(IF Len(j) <= 3 THEN upper(j) ELSE j)),
                    Item("display", MkStr(j)) >>) >>)) >>)])

\* annotation_mappings: every key maps to the field of its own name
annotation_mappings ==
    << Item(<<"t","i","t","l","e">>, "title"), Item(<<"n","a","m","e">>, "name"),
       Item(<<"d","e","s","c","r","i","p","t","i","o","n">>, "description"), Item(<<"v","e","r","s","i","o","n">>, "version"),
       Item(<<"s","t","a","t","u","s">>, "status"), Item(<<"a","u","t","h","o","r">>, "author"),
       Item(<<"p","u","b","l","i","s","h","e","r">>, "publisher"), Item(<<"c","o","n","t","a","c","t">>, "contact"),
       Item(<<"c","o","p","y","r","i","g","h","t">>, "copyright"), Item(<<"p","u","r","p","o","s","e">>, "purpose"),
       Item(<<"u","s","a","g","e">>, "usage"), Item(<<"u","r","l">>, "url"),
       Item(<<"i","d","e","n","t","i","f","i","e","r">>, "identifier"), Item(<<"d","a","t","e">>, "date"),
       Item(<<"t","y","p","e">>, "type"), Item(<<"s","u","b","j","e","c","t">>, "subject"),
       Item(<<"e","x","p","e","r","i","m","e","n","t","a","l">>, "experimental"),
       Item(<<"j","u","r","i","s","d","i","c","t","i","o","n">>, "jurisdiction"),
       Item(<<"a","p","p","r","o","v","a","l","D","a","t","e">>, "approvalDate"),
       Item(<<"l","a","s","t","R","e","v","i","e","w","D","a","t","e">>, "lastReviewDate"),
       Item(<<"e","f","f","e","c","t","i","v","e","P","e","r","i","o","d">>, "effectivePeriod") >>

\* the keys the builder looks up by name
K == [relatedDependency |-> <<"r","e","l","a","t","e","d","D","e","p","e","n","d","e","n","c","y">>,
      sqlDialect |-> <<"s","q","l","D","i","a","l","e","c","t">>,
      sqlDialectVersion |-> <<"s","q","l","D","i","a","l","e","c","t","V","e","r","s","i","o","n">>,
      database |-> <<"d","a","t","a","b","a","s","e">>,
      schema |-> <<"s","c","h","e","m","a">>,
      tables |-> <<"t","a","b","l","e","s">>,
      dependencies |-> <<"d","e","p","e","n","d","e","n","c","i","e","s">>,
      parameters |-> <<"p","a","r","a","m","e","t","e","r","s">>,
      status |-> <<"s","t","a","t","u","s">>,
      title |-> <<"t","i","t","l","e">>,
      name |-> <<"n","a","m","e">>,
      publisher |-> <<"p","u","b","l","i","s","h","e","r">>,
      author |-> <<"a","u","t","h","o","r">>,
      jurisdiction |-> <<"j","u","r","i","s","d","i","c","t","i","o","n">>,
      tags |-> <<"t","a","g","s">>,
      experimental |-> <<"e","x","p","e","r","i","m","e","n","t","a","l">>,
      date |-> <<"d","a","t","e">>,
      approvalDate |-> <<"a","p","p","r","o","v","a","l","D","a","t","e">>,
      lastReviewDate |-> <<"l","a","s","t","R","e","v","i","e","w","D","a","t","e">>,
      param |-> <<"p","a","r","a","m">>,
      owner |-> <<"o","w","n","e","r">>]

\* the two keys handled apart alone, without the keys of the table
standard_keys_handled_apart == {K.relatedDependency, K.sqlDialect}

\* standard_keys: the keys of the table and the two keys handled apart
standard_keys == Range(keys(annotation_mappings)) \cup {K.relatedDependency, K.sqlDialect}

(***************************************************************************)
(* FHIRLibraryBuilder._apply_annotations_to_library                        *)
(***************************************************************************)
\* one turn of the loop over annotation_mappings: its m-th entry
apply_mapping(lib, anns, m) ==
    LET annotation_key == annotation_mappings[m].k
        fhir_key == annotation_mappings[m].v
    IN  IF ~has_key(anns, annotation_key) THEN lib
        ELSE LET v == get(anns, annotation_key)
             IN  IF fhir_key = "experimental" /\ isinstance(v, "bool")
                 THEN put(lib, fhir_key, v)
                 ELSE IF fhir_key = "date" /\ isinstance(v, "str")
                 THEN put(lib, fhir_key, MkStr(_format_date(v.s)))
                 ELSE IF fhir_key \in {"author", "contact"} /\ isinstance(v, "str")
                 THEN put(lib, fhir_key, _format_contact(v.s))
                 ELSE IF fhir_key = "identifier" /\ isinstance(v, "str")
                 THEN (IF strip(v.s) # << >>
                       THEN put(lib, fhir_key, MkList(<< _format_identifier(v.s) >>))
                       ELSE lib)
                 ELSE IF fhir_key = "jurisdiction" /\ (isinstance(v, "str") \/ isinstance(v, "list"))
                 THEN (IF _format_jurisdiction(v).l # << >>
                       THEN put(lib, fhir_key, _format_jurisdiction(v))
                       ELSE lib)
                 ELSE IF isinstance(v, "str")
                 THEN put(lib, fhir_key, v)
                 ELSE lib

\* the loop over annotation_mappings, from its m-th entry on
RECURSIVE apply_mappings(_, _, _)
apply_mappings(lib, anns, m) ==
    IF m > Len(annotation_mappings) THEN lib
    ELSE apply_mappings(apply_mapping(lib, anns, m), anns, m + 1)

\* the loop over annotations.items(), from its i-th item on: the extensions
\* it appends
RECURSIVE extensions_from(_, _)
extensions_from(anns, i) ==
    LET key == anns[i].k
        v == anns[i].v
        url == Item("url", MkStr(<<"h","t","t","p",":","/","/","e","x","a","m","p","l","e",".","o","r","g","/","f","h","i","r","/","S","t","r","u","c","t","u","r","e","D","e","f","i","n","i","t","i","o","n","/","s","q","l","-">> \o key))
        turn ==
            IF key \in standard_keys \/ isinstance(v, "none") \/ strip(pystr(v)) = << >>
            THEN << >>
            ELSE IF isinstance(v, "bool") THEN << MkDict(<< url, Item("valueBoolean", v) >>) >>
            ELSE IF isinstance(v, "int") THEN << MkDict(<< url, Item("valueInteger", v) >>) >>
            ELSE IF isinstance(v, "float") THEN << MkDict(<< url, Item("valueDecimal", v) >>) >>
            ELSE IF isinstance(v, "list")
                 THEN IF v.l # << >>
                      THEN << MkDict(<< url, Item("valueString",
                                MkStr(join(<<",", " ">>, [n \in DOMAIN v.l |-> pystr(v.l[n])]))) >>) >>
                      ELSE << >>
            ELSE << MkDict(<< url, Item("valueString", MkStr(pystr(v))) >>) >>
    IN  IF i > Len(anns) THEN << >>
        ELSE turn \o extensions_from(anns, i + 1)

(***************************************************************************)
(* FHIRLibraryBuilder._add_additional_metadata                             *)
(***************************************************************************)
\* library['relatedArtifact'], created empty when the library has none,
\* with the artifacts appended
append_artifacts(lib, artifacts) ==
    LET old == IF has_key(lib, "relatedArtifact")
               THEN get(lib, "relatedArtifact").l ELSE << >>
    IN  put(lib, "relatedArtifact", MkList(old \o artifacts))

DependsOn == Item("type", MkStr(<<"d","e","p","e","n","d","s","-","o","n">>))

\* an entry whose resource is the text of the dependency as it was written
related_artifact_unstripped(dep) ==
    MkDict(<< DependsOn, Item("resource", MkStr(pystr(dep))) >>)

related_artifact(dep) ==
    MkDict(<< DependsOn, Item("resource", MkStr(strip(pystr(dep)))) >>)

\* an entry named by the repr of the parameter
parameter_entry_named_by_repr(param) ==
    MkDict(<< Item("name", MkStr(pyrepr(param))),
              Item("type", MkStr(<<"s","t","r","i","n","g">>)) >>)

\* the entry appended to library['parameter'] for one parameter
parameter_entry(param) ==
    MkDict(<< Item("name", MkStr(pystr(param))),
              Item("type", MkStr(<<"s","t","r","i","n","g">>)) >>)

\* the four blocks, one after the other
_add_additional_metadata(lib, anns) ==
    LET given == get(anns, K.relatedDependency)
        dependencies ==
            IF isinstance(given, "str") THEN << given >>
            ELSE IF ~isinstance(given, "list") THEN << MkStr(pystr(given)) >>
            ELSE given.l
        related ==
            IF has_key(anns, K.relatedDependency)
            THEN append_artifacts(lib,
                     [i \in DOMAIN dependencies |-> related_artifact(dependencies[i])])
            ELSE lib
        database_name == IF has_key(anns, K.database)
                         THEN pystr(get(anns, K.database))
                         ELSE <<"U","n","k","n","o","w","n">>
        display == <<"D","a","t","a","b","a","s","e",":"," ">> \o database_name
                   \o (IF has_key(anns, K.schema)
                       THEN <<","," ","S","c","h","e","m","a",":"," ">> \o pystr(get(anns, K.schema))
                       ELSE << >>)
        with_database ==
            IF has_key(anns, K.database) \/ has_key(anns, K.schema)
            THEN append_artifacts(related,
                     << MkDict(<< DependsOn, Item("display", MkStr(display)) >>) >>)
            ELSE related
        tables == IF has_key(anns, K.tables) THEN get(anns, K.tables)
                  ELSE get(anns, K.dependencies)
        with_tables ==
            IF /\ has_key(anns, K.tables) \/ has_key(anns, K.dependencies)
               /\ isinstance(tables, "list")
            THEN append_artifacts(with_database,
                     [i \in DOMAIN tables.l |->
                         MkDict(<< DependsOn,
                                   Item("display",
                                        MkStr(<<"T","a","b","l","e",":"," ">> \o pystr(tables.l[i]))) >>)])
            ELSE with_database
        params == get(anns, K.parameters).l
    IN  IF has_key(anns, K.parameters) /\ isinstance(get(anns, K.parameters), "list")
        THEN put(with_tables, "parameter",
                 MkList([i \in DOMAIN params |-> parameter_entry(params[i])]))
        ELSE with_tables

\* library["extension"] = extensions, when there are any
with_extensions(lib, extensions) ==
    IF extensions # << >> THEN put(lib, "extension", MkList(extensions)) ELSE lib

\* the library after the call (which raises when the jurisdiction does)
_apply_annotations_to_library(lib, anns) ==
    _add_additional_metadata(
        with_extensions(apply_mappings(lib, anns, 1), extensions_from(anns, 1)),
        anns)

\* the call raises AttributeError: j.strip() in _format_jurisdiction, on an
\* entry of a jurisdiction list that is kept and is no str
apply_raises(anns) ==
    /\ has_key(anns, K.jurisdiction)
    /\ isinstance(get(anns, K.jurisdiction), "list")
    /\ \E i \in DOMAIN get(anns, K.jurisdiction).l :
          LET j == get(anns, K.jurisdiction).l[i]
          IN  truthy(j) /\ strip(pystr(j)) # << >> /\ ~isinstance(j, "str")

(***************************************************************************)
(* FHIRLibraryBuilder.build_library_from_content                           *)
(***************************************************************************)
\* datetime.now().isoformat() + "Z"
now == <<"2","0","2","4","-","0","7","-","2","1","T","1","0",":","3","0",":","0","0",".","0","0","0","0","0","0","Z">>


_get_annotation_value(anns, key, default) ==
    IF has_key(anns, key) THEN get(anns, key) ELSE default

\* the library literal
new_library(text, anns, library_id, filename) ==
    << Item("resourceType", MkStr(<<"L","i","b","r","a","r","y">>)),
       Item("id", MkStr(library_id)),
       Item("meta", MkDict(<< Item("versionId", MkStr(<<"1">>)),
                              Item("lastUpdated", MkStr(now)) >>)),
       Item("status", _get_annotation_value(anns, K.status, MkStr(<<"d","r","a","f","t">>))),
       Item("type", MkDict(<< Item("coding", MkList(<< MkDict(<<
                Item("system", MkStr(<<"h","t","t","p",":","/","/","t","e","r","m","i","n","o","l","o","g","y",".","h","l","7",".","o","r","g","/","C","o","d","e","S","y","s","t","e","m","/","l","i","b","r","a","r","y","-","t","y","p","e">>)),
                Item("code", MkStr(<<"l","o","g","i","c","-","l","i","b","r","a","r","y">>)),
                Item("display", MkStr(<<"L","o","g","i","c"," ","L","i","b","r","a","r","y">>)) >>) >>)) >>)),
       Item("content", MkList(<< MkDict(<<
                Item("contentType", MkStr(<<"a","p","p","l","i","c","a","t","i","o","n","/","s","q","l">>)),
                Item("data", MkStr(b64encode(text))),
                Item("title", MkStr(filename)),
                Item("creation", MkStr(now)) >>) >>)) >>

\* annotations['sqlDialect'].strip() on a truthy value that is no str
dialect_raises(anns) ==
    /\ has_key(anns, K.sqlDialect)
    /\ truthy(get(anns, K.sqlDialect))
    /\ ~isinstance(get(anns, K.sqlDialect), "str")

\* library['content'][0]['contentType'] = f"application/{dialect}+sql"
with_dialect(lib, anns) ==
    IF has_key(anns, K.sqlDialect) /\ truthy(get(anns, K.sqlDialect))
    THEN LET dialect == lower(strip(get(anns, K.sqlDialect).s))
             content == get(lib, "content").l
         IN  put(lib, "content",
                 MkList(<< MkDict(put(content[1].d, "contentType",
                               MkStr(<<"a","p","p","l","i","c","a","t","i","o","n","/">> \o dialect \o <<"+","s","q","l">>))) >>
                        \o Tail(content)))
    ELSE lib

with_name(lib) ==
    IF ~has_key(lib, "name") /\ has_key(lib, "title")
    THEN put(lib, "name", MkStr(_camel_case_title(get(lib, "title").s)))
    ELSE lib

\* the call: the exception it raises ("none" when it returns) and the
\* document it returns
build_library_from_content(text, anns, library_id, filename) ==
    IF apply_raises(anns) \/ dialect_raises(anns)
    THEN [raised |-> "AttributeError", library |-> None]
    ELSE [raised |-> "none",
          library |-> _remove_empty_properties(MkDict(with_name(with_dialect(
                          _apply_annotations_to_library(
                              new_library(text, anns, library_id, filename), anns),
                          anns))))]

\* a call that removes the dialect from the map of the caller once read
annotations_after_build_dialect_popped(anns) ==
    SelectSeq(anns, LAMBDA item : item.k # K.sqlDialect)

\* the map of the caller after build_library_from_content returned or
\* raised: the call assigns to the library, to the extensions and to the
\* lists and mappings it creates, and to no item of the map or of its lists
annotations_after_build(anns) == anns

(***************************************************************************)
(* The calls that read files.  The file system is a mapping from a path    *)
(* (a file name, with no directory part) to the text of the regular file   *)
(* of that name; a path that is no key of it does not exist.               *)
(***************************************************************************)
\* name.rfind('.'), counted from 1: 0 when the name holds no dot
rfind(s, c) == Max({0} \cup {i \in DOMAIN s : s[i] = c})

\* PurePath.suffix: from the last dot on, unless that dot starts or ends the
\* name
suffix(name) ==
    IF 1 < rfind(name, ".") /\ rfind(name, ".") < Len(name)
    THEN SubSeq(name, rfind(name, "."), Len(name))
    ELSE << >>

\* PurePath.stem: the name without its suffix
stem(name) ==
    IF 1 < rfind(name, ".") /\ rfind(name, ".") < Len(name)
    THEN SubSeq(name, 1, rfind(name, ".") - 1)
    ELSE name

\* str.replace(old, new), for one-character strings
replace(s, old, new) == [i \in DOMAIN s |-> IF s[i] = old THEN new ELSE s[i]]

\* Path.exists()
exists(fs, path) == has_key(fs, path)

\* file_path.suffix.lower() in [".sql", ".ddl"]
sql_suffix(path) == lower(suffix(path)) \in { <<".","s","q","l">>, <<".","d","d","l">> }

\* a parse_file that looks at the suffix before it looks for the file
parse_file_suffix_first(fs, path) ==
    IF ~sql_suffix(path)
    THEN [raised |-> "ValueError",
          message |-> <<"E","x","p","e","c","t","e","d"," ","S","Q","L"," ","f","i","l","e",","," ","g","o","t",":"," ">> \o suffix(path),
          annotations |-> None]
    ELSE IF ~exists(fs, path)
    THEN [raised |-> "FileNotFoundError",
          message |-> <<"S","Q","L"," ","f","i","l","e"," ","n","o","t"," ","f","o","u","n","d",":"," ">> \o path,
          annotations |-> None]
    ELSE [raised |-> "none", message |-> << >>,
          annotations |-> parse_content(get(fs, path))]

\* SQLAnnotationParser.parse_file: the exception it raises ("none" when it
\* returns), the text of the exception and the map it returns
parse_file(fs, path) ==
    IF ~exists(fs, path)
    THEN [raised |-> "FileNotFoundError",
          message |-> <<"S","Q","L"," ","f","i","l","e"," ","n","o","t"," ","f","o","u","n","d",":"," ">> \o path,
          annotations |-> None]
    ELSE IF ~sql_suffix(path)
    THEN [raised |-> "ValueError",
          message |-> <<"E","x","p","e","c","t","e","d"," ","S","Q","L"," ","f","i","l","e",","," ","g","o","t",":"," ">> \o suffix(path),
          annotations |-> None]
    ELSE [raised |-> "none", message |-> << >>,
          annotations |-> parse_content(get(fs, path))]

\* type(v).__name__
type_name(v) ==
    IF isinstance(v, "bool") THEN <<"b","o","o","l">>
    ELSE IF isinstance(v, "int") THEN <<"i","n","t">>
    ELSE IF isinstance(v, "float") THEN <<"f","l","o","a","t">>
    ELSE IF isinstance(v, "list") THEN <<"l","i","s","t">>
    ELSE IF isinstance(v, "dict") THEN <<"d","i","c","t">>
    ELSE IF isinstance(v, "none") THEN <<"N","o","n","e","T","y","p","e">>
    ELSE <<"s","t","r">>

\* the value whose .strip() raises: the first entry of the jurisdiction list
\* that is kept and is no str, else the dialect
no_strip(anns) ==
    IF apply_raises(anns)
    THEN SelectSeq(get(anns, K.jurisdiction).l,
                   LAMBDA j : truthy(j) /\ strip(pystr(j)) # << >>
                              /\ ~isinstance(j, "str"))[1]
    ELSE get(anns, K.sqlDialect)

\* str(e) of the AttributeError build_library_from_content raises
attribute_error(anns) ==
    <<"'">> \o type_name(no_strip(anns)) \o <<"'"," ","o","b","j","e","c","t"," ","h","a","s"," ","n","o"," ","a","t","t","r","i","b","u","t","e"," ","'","s","t","r","i","p","'">>

\* the result of build_library_from_content, with the text of its exception
with_message(call, anns) ==
    [raised |-> call.raised,
     message |-> IF call.raised = "none" THEN << >> ELSE attribute_error(anns),
     library |-> call.library]

\* sql_file_path.stem.replace(' ', '-').replace('_', '-') unless an id is given
file_library_id(path, library_id) ==
    IF library_id = << >> THEN replace(replace(stem(path), " ", "-"), "_", "-")
    ELSE library_id

\* the calls after the file is read; parsed is the result of parse_file
build_parsed_file(fs, path, library_id, parsed) ==
    IF parsed.raised # "none"
    THEN [raised |-> parsed.raised, message |-> parsed.message, library |-> None]
    ELSE with_message(
             build_library_from_content(get(fs, path), parsed.annotations,
                                        file_library_id(path, library_id), path),
             parsed.annotations)

\* FHIRLibraryBuilder.build_library_from_file: open() comes first and raises
\* on a path that does not exist; library_id is << >> when none is given
build_library_from_file(fs, path, library_id) ==
    IF ~exists(fs, path)
    THEN [raised |-> "FileNotFoundError",
          message |-> <<"[","E","r","r","n","o"," ","2","]"," ","N","o"," ","s","u","c","h"," ","f","i","l","e"," ","o","r"," ","d","i","r","e","c","t","o","r","y",":"," ">> \o strrepr(path),
          library |-> None]
    ELSE build_parsed_file(fs, path, library_id, parse_file(fs, path))

\* a placeholder whose id holds the whole file name
error_library_named_by_file(sql_file, message) ==
    MkDict(<< Item("resourceType", MkStr(<<"L","i","b","r","a","r","y">>)),
              Item("id", MkStr(<<"e","r","r","o","r","-">> \o sql_file)),
              Item("status", MkStr(<<"u","n","k","n","o","w","n">>)),
              Item("type", MkDict(<< Item("coding", MkList(<< MkDict(<<
                  Item("system", MkStr(<<"h","t","t","p",":","/","/","t","e","r","m","i","n","o","l","o","g","y",".","h","l","7",".","o","r","g","/","C","o","d","e","S","y","s","t","e","m","/","l","i","b","r","a","r","y","-","t","y","p","e">>)),
                  Item("code", MkStr(<<"l","o","g","i","c","-","l","i","b","r","a","r","y">>)) >>) >>)) >>)),
              Item("extension", MkList(<< MkDict(<<
                  Item("url", MkStr(<<"h","t","t","p",":","/","/","e","x","a","m","p","l","e",".","o","r","g","/","f","h","i","r","/","S","t","r","u","c","t","u","r","e","D","e","f","i","n","i","t","i","o","n","/","p","r","o","c","e","s","s","i","n","g","-","e","r","r","o","r">>)),
                  Item("valueString", MkStr(message)) >>) >>)) >>)

\* the placeholder build_multiple_libraries appends for a source that fails
error_library(sql_file, message) ==
    MkDict(<< Item("resourceType", MkStr(<<"L","i","b","r","a","r","y">>)),
              Item("id", MkStr(<<"e","r","r","o","r","-">> \o stem(sql_file))),
              Item("status", MkStr(<<"u","n","k","n","o","w","n">>)),
              Item("type", MkDict(<< Item("coding", MkList(<< MkDict(<<
                  Item("system", MkStr(<<"h","t","t","p",":","/","/","t","e","r","m","i","n","o","l","o","g","y",".","h","l","7",".","o","r","g","/","C","o","d","e","S","y","s","t","e","m","/","l","i","b","r","a","r","y","-","t","y","p","e">>)),
                  Item("code", MkStr(<<"l","o","g","i","c","-","l","i","b","r","a","r","y">>)) >>) >>)) >>)),
              Item("extension", MkList(<< MkDict(<<
                  Item("url", MkStr(<<"h","t","t","p",":","/","/","e","x","a","m","p","l","e",".","o","r","g","/","f","h","i","r","/","S","t","r","u","c","t","u","r","e","D","e","f","i","n","i","t","i","o","n","/","p","r","o","c","e","s","s","i","n","g","-","e","r","r","o","r">>)),
                  Item("valueString", MkStr(message)) >>) >>)) >>)

\* one turn of the loop: the library built, or the placeholder
library_or_error(sql_file, call) ==
    IF call.raised = "none" THEN call.library
    ELSE error_library(sql_file, call.message)

\* FHIRLibraryBuilder.build_multiple_libraries, from source i on
RECURSIVE build_multiple_libraries_from(_, _, _)
build_multiple_libraries_from(fs, paths, i) ==
    IF i > Len(paths) THEN << >>
    ELSE << library_or_error(paths[i],
                             build_library_from_file(fs, paths[i], << >>)) >>
         \o build_multiple_libraries_from(fs, paths, i + 1)

build_multiple_libraries(fs, paths) ==
    build_multiple_libraries_from(fs, paths, 1)

(***************************************************************************)
(* The inputs the checks draw from.                                        *)
(***************************************************************************)
MaxValueLen == 3

\* every str of at most n characters of the alphabet
Strings(alphabet, n) == UNION {[1..k -> alphabet] : k \in 0..n}

ConvertAlphabet ==
    {"0", "1", "2", "-", ".", "e", "E", ",", "n", "a", "o", "N", " ", "\"", "'", "_"}

\* The texts of SpecParse: at most MaxAnnotations annotations "@key: raw",
\* each opening a line comment, opening a block comment, or following the
\* one before it inside the same comment.
MaxAnnotations == 3
ParseKeys == {K.status, K.relatedDependency}
ParseValues == { <<"a">>, <<"b", ",", ",", "c">> }
ItemSeqs(max) ==
    LET Places == {"line", "block", "same"}
        Items == [place : Places, key : ParseKeys, raw : ParseValues]
    IN  {is \in UNION {[1..n -> Items] : n \in 0..max} :
            Len(is) >= 1 => is[1].place # "same"}

RECURSIVE render(_, _, _)
render(is, i, open) ==
    IF i > Len(is) THEN (IF open = "block" THEN <<" ", "*", "/">> ELSE << >>)
    ELSE LET ann == <<"@">> \o is[i].key \o <<":", " ">> \o is[i].raw
         IN  IF is[i].place = "same"
             THEN (IF open = "block" THEN <<"\n", " ">> ELSE <<" ">>)
                  \o ann \o render(is, i + 1, open)
             ELSE (IF open = "block" THEN <<" ", "*", "/">> ELSE << >>)
                  \o (IF i > 1 THEN <<"\n">> ELSE << >>)
                  \o (IF is[i].place = "line" THEN <<"-", "-", " ">> ELSE <<"/", "*", " ">>)
                  \o ann \o render(is, i + 1, is[i].place)

\* The texts build_library_from_content parses itself hold at most
\* MaxBuildAnnotations annotations.
MaxBuildAnnotations == 2

\* The annotation maps a caller hands to build_library_from_content: at most
\* MaxKeys of the keys below, in this order, each with one of the values.
MaxKeys == 2
BuildKeys ==
    << K.title, K.name, K.status, K.publisher, K.author, K.relatedDependency,
       K.sqlDialect, K.sqlDialectVersion, K.database, K.tags >>
SampleValues ==
    { MkStr(<< >>),
      MkStr(<<" ","A","b","-","c"," ">>),
      MkBool(TRUE),
      MkBool(FALSE),
      MkInt(12),
      MkList(<< MkStr(<<"x">>), MkStr(<< >>), MkStr(<<" ","y"," ">>) >>),
      MkList(<< MkStr(<<"a">>), MkList(<< MkStr(<<"b">>), MkStr(<< >>) >>) >>) }

\* the members of a set of numbers, ascending
RECURSIVE Ascending(_)
Ascending(S) == IF S = {} THEN << >> ELSE << Min(S) >> \o Ascending(S \ {Min(S)})

\* the choices of at most max keys, as ascending places in BuildKeys
KeyChoices(max) ==
    {Ascending(ks) : ks \in {s \in SUBSET DOMAIN BuildKeys : Cardinality(s) <= max}}

\* the map that holds the chosen keys, the i-th with the value vs[i]
SampleMap(ks, vs) == [i \in DOMAIN ks |-> Item(BuildKeys[ks[i]], vs[i])]

\* the maps that hold a title alone: every title of at most MaxTitleLen
\* characters of the alphabet
MaxTitleLen == 3
TitleAlphabet == {"a", "B", "1", "-", "_", " "}
TitleMap(s) == << Item(K.title, MkStr(s)) >>

\* The maps of the keys the builder formats or turns into extensions: at
\* most MaxKeys of MetaKeys, in this order, each with one of MetaValues.
MetaKeys == << K.jurisdiction, K.experimental, K.parameters, K.tags, K.owner >>
MetaValues ==
    SampleValues \cup
    { MkStr(<<"u","s",",",","," ","C","a","n","a">>),
      MkInt(0),
      MkFloat("fin", FALSE, 15, -1),
      MkList(<< >>),
      MkList(<< MkStr(<< >>) >>) }
MetaChoices(max) ==
    {Ascending(ks) : ks \in {s \in SUBSET DOMAIN MetaKeys : Cardinality(s) <= max}}
MetaMap(ks, vs) == [i \in DOMAIN ks |-> Item(MetaKeys[ks[i]], vs[i])]

\* The texts of one line comment "-- @key: raw".
LineKeys ==
    { K.sqlDialect, K.jurisdiction, K.experimental, K.parameters, K.param,
      K.date, K.approvalDate, K.owner }
LineRaws ==
    { <<"5">>, <<"h","i","v","e">>, <<"u","s",","," ","c","a">>, <<"u","s",","," ","8","4","0">>, <<"t","r","u","e">>, <<"a",",",",","b">>,
      <<"a","g","e"," ","i","n","t","e","g","e","r">>, <<"0","7","/","2","1","/","2","0","2","4">>, <<"0","9","9","9","-","0","1","-","0","1">> }
AnnotationLine(key, raw) == <<"-","-"," ","@">> \o key \o <<":"," ">> \o raw

\* the date values: year, month and day in the three orders of the formats,
\* with months and days that exist and that do not, and three with a time
DateRaws ==
    LET years == { <<"2","0","2","4">>, <<"0","9","9","9">> }
        months == { <<"0","3">>, <<"1","3">>, <<"2">> }
        days == { <<"0","4">>, <<"3","1">> }
    IN  {y \o <<sep>> \o m \o <<sep>> \o d :
            y \in years, m \in months, d \in days, sep \in {"-", "/"}}
        \cup {m \o <<"/">> \o d \o <<"/">> \o y :
                y \in years, m \in months, d \in days}
        \cup { <<"2","0","2","4","-","0","3","-","0","4","T","1","0",":","3","0",":","0","0">>, <<"2","0","2","4","-","0","3","-","0","4"," ","1","0",":","3","0",":","0","0">>, <<"2","0","2","4","-","0","3","-","0","4","t","1","0",":","3","0",":","6","0">> }

DefaultText == <<"S","E","L","E","C","T"," ","1",";">>
LibraryIds == { <<"s","q","l","-","l","i","b","r","a","r","y">> }
Filenames == { <<"q","u","e","r","y",".","s","q","l">> }

\* The documents given to _remove_empty_properties: the mappings of at most
\* MaxNodes values, the mapping itself counted, nested at will.
MaxNodes == 5
Leaves == {None, MkStr(<< >>), MkStr(<<"x">>)}
DocKeys == <<"a", "b", "c", "d", "e", "f">>

\* the sequences of values that hold n values in all
RECURSIVE ValueSeqs(_)
ValuesOfSize(n) ==
    (IF n = 1 THEN Leaves ELSE {})
    \cup {MkList(s) : s \in ValueSeqs(n - 1)}
    \cup {MkDict([i \in DOMAIN s |-> Item(DocKeys[i], s[i])]) : s \in ValueSeqs(n - 1)}
ValueSeqs(n) ==
    IF n = 0 THEN {<< >>}
    ELSE UNION {{<< v >> \o rest : v \in ValuesOfSize(j), rest \in ValueSeqs(n - j)} :
                    j \in 1..n}
Docs(max) ==
    UNION {{MkDict([i \in DOMAIN s |-> Item(DocKeys[i], s[i])]) : s \in ValueSeqs(n)} :
               n \in 0..(max - 1)}

(***************************************************************************)
(* SpecConvert: one call of _convert_value.                                *)
(***************************************************************************)
InitConvert ==
    /\ pc = "convert"
    /\ value \in Strings(ConvertAlphabet, MaxValueLen)
    /\ converted = None
    /\ sql_content = << >>
    /\ comments = << >>
    /\ comment_annotations = << >>
    /\ annotations = << >>
    /\ library = None
    /\ raised = "none"
    /\ doc = None
    /\ pruned = << >>
    /\ caller_annotations = << >>
    /\ calls = 0
    /\ files = << >>
    /\ file_path = << >>
    /\ sql_files = << >>
    /\ libraries = << >>

ConvertValue ==
    /\ pc = "convert"
    /\ converted' = _convert_value(value)
    /\ pc' = "converted"
    /\ UNCHANGED <<value, sql_content, comments, comment_annotations,
                   annotations, library,
                   raised, doc, pruned>>
    /\ UNCHANGED call_vars
    /\ UNCHANGED file_vars

NextConvert == ConvertValue

SpecConvert == InitConvert /\ [][NextConvert]_vars

(***************************************************************************)
(* Claims about _convert_value (checked under SpecConvert).                *)
(***************************************************************************)
BoolWords == TrueWords \cup FalseWords
HasNoDotOrE(v) == \A i \in DOMAIN v : v[i] \notin {".", "e", "E"}
CoercedParts(v) ==
    LET parts == split(v, ",", 1)
    IN  MkList([i \in DOMAIN parts |-> _convert_value(strip(parts[i]))])

\* C2: a value that is one of true, yes, on, 1 (case-insensitively, after
\* trimming) converts to True and one of false, no, off, 0 to False; the
\* words are tested before the numeric coercion, so "1" and "0" are booleans.
C2_BooleanWordsFirst ==
    pc = "converted" =>
        /\ lower(strip(value)) \in TrueWords => converted = MkBool(TRUE)
        /\ lower(strip(value)) \in FalseWords => converted = MkBool(FALSE)

C2_Witness ==
    /\ pc = "converted"
    /\ value = <<" ", "N", "o">>
    /\ converted = MkBool(FALSE)

\* C3 as stated: for a value that is not a boolean word, an integer when it
\* has no ".", "e", "E" and int() parses it; otherwise a float when float()
\* parses it; otherwise the list of its coerced comma-separated parts when it
\* has a comma; otherwise a string.
C3_AsStated ==
    pc = "converted" /\ lower(strip(value)) \notin BoolWords =>
        LET v == strip(value)
        IN  IF HasNoDotOrE(v) /\ int_parses(v) THEN converted = MkInt(int_value(v))
            ELSE IF float_parses(v) THEN converted = float_value(v)
            ELSE IF contains(v, ",") THEN converted = CoercedParts(v)
            ELSE isinstance(converted, "str")

\* C3 amended: float() is tried only on a value that has a ".", "e" or "E";
\* a value without them that int() rejects (nan, inf) is never a float.
C3_NumericThenListThenString ==
    pc = "converted" /\ lower(strip(value)) \notin BoolWords =>
        LET v == strip(value)
        IN  IF HasNoDotOrE(v) /\ int_parses(v) THEN converted = MkInt(int_value(v))
            ELSE IF ~HasNoDotOrE(v) /\ float_parses(v) THEN converted = float_value(v)
            ELSE IF contains(v, ",") THEN converted = CoercedParts(v)
            ELSE isinstance(converted, "str")

C3_Witness ==
    /\ pc = "converted"
    /\ value = <<"2", "E", "1">>
    /\ converted = MkFloat("fin", FALSE, 2, 1)

(***************************************************************************)
(* SpecParse: parse_content on a text.                                     *)
(***************************************************************************)
InitParse ==
    /\ pc = "parse"
    /\ \E is \in ItemSeqs(MaxAnnotations) : sql_content = render(is, 1, "none")
    /\ value = << >>
    /\ converted = None
    /\ comments = << >>
    /\ comment_annotations = << >>
    /\ annotations = << >>
    /\ library = None
    /\ raised = "none"
    /\ doc = None
    /\ pruned = << >>
    /\ caller_annotations = << >>
    /\ calls = 0
    /\ files = << >>
    /\ file_path = << >>
    /\ sql_files = << >>
    /\ libraries = << >>

ParseContent ==
    /\ pc = "parse"
    /\ comments' = _extract_comments(sql_content)
    /\ comment_annotations' = region_annotations(comments')
    /\ annotations' = merge_comments(<< >>, comment_annotations')
    /\ pc' = "parsed"
    /\ UNCHANGED <<value, converted, sql_content, library, raised, doc, pruned>>
    /\ UNCHANGED call_vars
    /\ UNCHANGED file_vars

NextParse == ParseContent

SpecParse == InitParse /\ [][NextParse]_vars

(***************************************************************************)
(* Claims about the parser (checked under SpecParse).                      *)
(***************************************************************************)
RegionMap(i) == comment_annotations[i]
RegionsWith(key) == {i \in DOMAIN comments : has_key(RegionMap(i), key)}
AllKeys == UNION {Range(keys(RegionMap(i))) : i \in DOMAIN comments}

\* the per-region values of key in the regions from..Len(comments), each
\* wrapped as a list when it is none, concatenated in scan order
RECURSIVE Concatenated(_, _)
Concatenated(key, from) ==
    IF from > Len(comments) THEN << >>
    ELSE (IF has_key(RegionMap(from), key) THEN aslist(get(RegionMap(from), key))
          ELSE << >>) \o Concatenated(key, from + 1)

\* how often key occurs among the matches of the regions from..Len(comments)
RECURSIVE Occurrences(_, _)
Occurrences(key, from) ==
    IF from > Len(comments) THEN << >>
    ELSE SelectSeq(annotation_matches(comments[from], 1), LAMBDA m : m.key = key)
         \o Occurrences(key, from + 1)

RECURSIVE CoercedOccurrences(_, _)
CoercedOccurrences(ms, key) ==
    IF ms = << >> THEN << >>
    ELSE (IF ms[1].key = key THEN << _convert_value(strip(ms[1].value)) >> ELSE << >>)
         \o CoercedOccurrences(Tail(ms), key)

\* C5: a key that occurs n >= 2 times in one region holds a list of n
\* elements, the i-th the coerced value of its i-th occurrence; a comma list
\* is one element of it, first occurrence or not.
C5_OneElementPerOccurrence ==
    pc = "parsed" =>
        \A i \in DOMAIN comments :
            LET ms == annotation_matches(comments[i], 1)
            IN  \A key \in Range(keys(RegionMap(i))) :
                    Len(CoercedOccurrences(ms, key)) >= 2 =>
                        get(RegionMap(i), key) = MkList(CoercedOccurrences(ms, key))

(***************************************************************************)
(* SpecBuild: build_library_from_content, on a text whose annotations it   *)
(* parses itself (annotations is None) or on a map the caller hands it.    *)
(***************************************************************************)
InitBuild ==
    /\ \/ /\ pc = "parse"
          /\ \/ \E is \in ItemSeqs(MaxBuildAnnotations) :
                   sql_content = render(is, 1, "none")
             \/ \E key \in LineKeys, raw \in LineRaws :
                   sql_content = AnnotationLine(key, raw)
             \/ \E raw \in DateRaws :
                   sql_content = AnnotationLine(K.date, raw)
          /\ annotations = << >>
       \/ /\ pc = "parsed"
          /\ sql_content = DefaultText
          /\ \/ \E ks \in KeyChoices(MaxKeys) :
                   \E vs \in [DOMAIN ks -> SampleValues] :
                       annotations = SampleMap(ks, vs)
             \/ \E s \in Strings(TitleAlphabet, MaxTitleLen) :
                   annotations = TitleMap(s)
             \/ \E ks \in MetaChoices(MaxKeys) :
                   \E vs \in [DOMAIN ks -> MetaValues] :
                       annotations = MetaMap(ks, vs)
    /\ value = << >>
    /\ converted = None
    /\ comments = << >>
    /\ comment_annotations = << >>
    /\ library = None
    /\ raised = "none"
    /\ doc = None
    /\ pruned = << >>
    /\ caller_annotations = << >>
    /\ calls = 0
    /\ files = << >>
    /\ file_path = << >>
    /\ sql_files = << >>
    /\ libraries = << >>

BuildLibraryFromContent ==
    /\ pc = "parsed"
    /\ \E library_id \in LibraryIds, filename \in Filenames :
          \E call \in {build_library_from_content(sql_content, annotations,
                                                  library_id, filename)} :
              /\ raised' = call.raised
              /\ library' = call.library
    /\ pc' = "built"
    /\ UNCHANGED <<value, converted, sql_content, comments, comment_annotations,
                   annotations, doc, pruned>>
    /\ UNCHANGED call_vars
    /\ UNCHANGED file_vars

NextBuild == ParseContent \/ BuildLibraryFromContent

SpecBuild == InitBuild /\ [][NextBuild]_vars

(***************************************************************************)
(* Claims about the builder (checked under SpecBuild).                     *)
(***************************************************************************)
Built == pc = "built" /\ raised = "none"
Field(d, k) == get(d.d, k)
HasField(d, k) == has_key(d.d, k)
ContentType == Field(Field(library, "content").l[1], "contentType")

\* C1: the content type is application/sql with no sqlDialect annotation,
\* "application/sql; dialect=<d trimmed and lowercased>" with sqlDialect = d,
\* and that followed by "; version=<v>" with sqlDialectVersion = v as well.
C1_DialectContentType ==
    Built =>
        IF ~has_key(annotations, K.sqlDialect)
        THEN ContentType = MkStr(<<"a","p","p","l","i","c","a","t","i","o","n","/","s","q","l">>)
        ELSE LET d == get(annotations, K.sqlDialect)
             IN  isinstance(d, "str") =>
                    ContentType =
                        MkStr(<<"a","p","p","l","i","c","a","t","i","o","n","/","s","q","l",";"," ","d","i","a","l","e","c","t","=">> \o lower(strip(d.s))
                              \o (IF has_key(annotations, K.sqlDialectVersion)
                                  THEN <<";"," ","v","e","r","s","i","o","n","=">>
                                       \o pystr(get(annotations, K.sqlDialectVersion))
                                  ELSE << >>))

\* the dialect becomes the subtype of the media type and the version an
\* extension
C1_Witness ==
    /\ Built
    /\ annotations = << Item(K.sqlDialect, MkStr(<<" ","A","b","-","c"," ">>)),
                        Item(K.sqlDialectVersion, MkInt(12)) >>
    /\ ContentType = MkStr(<<"a","p","p","l","i","c","a","t","i","o","n","/","a","b","-","c","+","s","q","l">>)

\* empty as C6 words it: null, a blank string, an empty list or mapping, a
\* list or mapping all of whose elements are empty
RECURSIVE Empty(_)
Empty(v) ==
    \/ v = None
    \/ v.t = "str" /\ \A i \in DOMAIN v.s : isspace(v.s[i])
    \/ v.t = "list" /\ \A i \in DOMAIN v.l : Empty(v.l[i])
    \/ v.t = "dict" /\ \A i \in DOMAIN v.d : Empty(v.d[i].v)
RECURSIVE NoEmptyWithin(_)
NoEmptyWithin(v) ==
    /\ ~Empty(v)
    /\ v.t = "list" => \A i \in DOMAIN v.l : NoEmptyWithin(v.l[i])
    /\ v.t = "dict" => \A i \in DOMAIN v.d : NoEmptyWithin(v.d[i].v)

\* C6: a document returned holds, at any depth, no null, no blank string, no
\* empty list or mapping and no list or mapping of empty elements only; an
\* annotation of a known key with an empty value leaves no field of its name.
C6_NoEmptyAtAnyDepth ==
    Built =>
        /\ NoEmptyWithin(library)
        /\ \A m \in DOMAIN annotation_mappings :
              LET key == annotation_mappings[m].k
              IN  (has_key(annotations, key) /\ get(annotations, key) = MkStr(<< >>))
                      => ~HasField(library, annotation_mappings[m].v)

\* a status repeated in one comment, the second time as a comma list with an
\* empty part: the document's status holds the blank string
C6_Witness ==
    /\ Built
    /\ comments # << >>
    /\ HasField(library, "status")
    /\ Field(library, "status") =
          MkList(<< MkStr(<<"a">>),
                    MkList(<< MkStr(<<"b">>), MkStr(<< >>), MkStr(<<"c">>) >>) >>)

\* C8: with a name annotation, of whatever type, no name is derived from the
\* title: a name the document holds is the annotated one.
C8_NameAnnotationBlocksDerivation ==
    (Built /\ has_key(annotations, K.name)) =>
        (HasField(library, "name") =>
            Field(library, "name") = get(annotations, K.name))

\* a name annotation that is no string, and the name derived all the same
C8_Witness ==
    /\ Built
    /\ annotations = << Item(K.title, MkStr(<<" ","A","b","-","c"," ">>)), Item(K.name, MkInt(12)) >>
    /\ Field(library, "name") = MkStr(<<"A","b","C">>)

\* the title-casing transform as C9 words it: the runs of letters and digits
\* of the title, each with its first character uppercased and the others
\* lowercased, concatenated
isalnum(c) == isword(c) /\ c # "_"
RECURSIVE TitleCaseFrom(_, _)
TitleCaseFrom(title, i) ==
    IF i > Len(title) THEN << >>
    ELSE (IF ~isalnum(title[i]) THEN << >>
          ELSE IF i = 1 \/ ~isalnum(title[i - 1]) THEN << upperc(title[i]) >>
          ELSE << lowerc(title[i]) >>)
         \o TitleCaseFrom(title, i + 1)
TitleCase(title) == TitleCaseFrom(title, 1)

HasTitle == has_key(annotations, K.title) /\ isinstance(get(annotations, K.title), "str")

\* C9 as the spec states it: with a title and no name annotation the
\* document's name is the transform of the title.
C9_AsStated ==
    (Built /\ ~has_key(annotations, K.name) /\ HasTitle) =>
        /\ HasField(library, "name")
        /\ Field(library, "name") = MkStr(TitleCase(get(annotations, K.title).s))

\* C9: with a string title and no name annotation the document's name is the
\* transform of the title when the transform is not empty, and the document
\* has no name when it is; with no name annotation and no string title the
\* document has no name.
C9_DerivedName ==
    (Built /\ ~has_key(annotations, K.name)) =>
        IF HasTitle /\ TitleCase(get(annotations, K.title).s) # << >>
        THEN /\ HasField(library, "name")
             /\ Field(library, "name") = MkStr(TitleCase(get(annotations, K.title).s))
        ELSE ~HasField(library, "name")

\* two words, the second with a capital to lower
C9_Witness ==
    /\ Built
    /\ annotations = << Item(K.title, MkStr(<<"a", "-", "B">>)) >>
    /\ Field(library, "name") = MkStr(<<"A", "B">>)

\* the entries of a relatedDependency value
Entries(v) == IF isinstance(v, "list") THEN v.l ELSE << v >>
Artifacts == IF HasField(library, "relatedArtifact")
             THEN Field(library, "relatedArtifact").l ELSE << >>
Resource(entry) == strip(pystr(entry))

InitPrune ==
    /\ pc = "prune"
    /\ doc \in Docs(MaxNodes)
    /\ pruned = << >>
    /\ caller_annotations = << >>
    /\ calls = 0
    /\ files = << >>
    /\ file_path = << >>
    /\ sql_files = << >>
    /\ libraries = << >>
    /\ value = << >>
    /\ converted = None
    /\ sql_content = << >>
    /\ comments = << >>
    /\ comment_annotations = << >>
    /\ annotations = << >>
    /\ library = None
    /\ raised = "none"

RemoveEmptyProperties ==
    /\ pc = "prune"
    /\ pruned' = Append(pruned, _remove_empty_properties(
                                    IF pruned = << >> THEN doc
                                    ELSE pruned[Len(pruned)]))
    /\ pc' = IF Len(pruned') = 2 THEN "pruned" ELSE "prune"
    /\ UNCHANGED <<value, converted, sql_content, comments, comment_annotations,
                   annotations, library, raised, doc>>
    /\ UNCHANGED call_vars
    /\ UNCHANGED file_vars

NextPrune == RemoveEmptyProperties

SpecPrune == InitPrune /\ [][NextPrune]_vars

\* C7: pruning the document that pruning returned returns it unchanged.
C7_PruneIdempotent ==
    Len(pruned) = 2 => pruned[2] = pruned[1]

\* a mapping nested in a mapping, emptied by the pruning and so dropped
C7_Witness ==
    /\ pc = "pruned"
    /\ doc = MkDict(<< Item("a", MkDict(<< Item("a", MkStr(<< >>)) >>)),
                       Item("b", MkStr(<<"x">>)) >>)
    /\ pruned = << MkDict(<< Item("b", MkStr(<<"x">>)) >>),
                   MkDict(<< Item("b", MkStr(<<"x">>)) >>) >>

(***************************************************************************)
(* Claims about the formatted fields (checked under SpecBuild).            *)
(***************************************************************************)
\* the codes of a jurisdiction value: the parts of a comma-joined string, or
\* the string forms of the items of a list, trimmed, the blank ones dropped
JurisdictionCodes(v) ==
    LET parts == IF isinstance(v, "str") THEN split(v.s, ",", 1)
                 ELSE [i \in DOMAIN v.l |-> pystr(v.l[i])]
    IN  SelectSeq([i \in DOMAIN parts |-> strip(parts[i])], LAMBDA c : c # << >>)
GivenJurisdiction ==
    /\ has_key(annotations, K.jurisdiction)
    /\ \/ isinstance(get(annotations, K.jurisdiction), "str")
       \/ isinstance(get(annotations, K.jurisdiction), "list")
Coding(entry) == Field(entry, "coding").l

\* C11: a jurisdiction given as a comma-joined string or as a list gives a
\* document whose jurisdiction holds one coding per non-blank trimmed code, in
\* order, with the code uppercased when it has at most 3 characters and the
\* code itself as display; with no such code the document has no
\* jurisdiction.
C11_OneCodingPerCode ==
    (pc = "built" /\ GivenJurisdiction) =>
        LET codes == JurisdictionCodes(get(annotations, K.jurisdiction))
        IN  /\ raised = "none"
            /\ IF codes = << >> THEN ~HasField(library, "jurisdiction")
               ELSE /\ HasField(library, "jurisdiction")
                    /\ Len(Field(library, "jurisdiction").l) = Len(codes)
                    /\ \A i \in DOMAIN codes :
                          LET coding == Coding(Field(library, "jurisdiction").l[i])
                          IN  /\ Len(coding) = 1
                              /\ Field(coding[1], "code") =
                                    MkStr(IF Len(codes[i]) <= 3 THEN upper(codes[i])
                                          ELSE codes[i])
                              /\ Field(coding[1], "display") = MkStr(codes[i])

\* a string of two codes and a blank part between them: US and Cana
C11_Witness ==
    /\ Built
    /\ has_key(annotations, K.jurisdiction)
    /\ get(annotations, K.jurisdiction) = MkStr(<<"u","s",",",","," ","C","a","n","a">>)
    /\ Len(Field(library, "jurisdiction").l) = 2
    /\ Field(Coding(Field(library, "jurisdiction").l[1])[1], "code") = MkStr(<<"U","S">>)
    /\ Field(Coding(Field(library, "jurisdiction").l[2])[1], "code") = MkStr(<<"C","a","n","a">>)

\* the builder parsed the text itself
FromText == sql_content # DefaultText

\* C12: on every text, parse_content returns a map and
\* build_library_from_content returns a document; neither raises, whatever
\* the types the annotations coerce to.
C12_NeverRaises == (pc = "built" /\ FromText) => (raised = "none" /\ library # None)

\* a dialect that coerces to a string builds
C12_Witness ==
    /\ pc = "built"
    /\ sql_content = AnnotationLine(K.sqlDialect, <<"h","i","v","e">>)
    /\ raised = "none"
    /\ ContentType = MkStr(<<"a","p","p","l","i","c","a","t","i","o","n","/","h","i","v","e","+","s","q","l">>)

(***************************************************************************)
(* SpecFile: one call of parse_file or of build_library_from_file on a     *)
(* path that names a regular file or nothing.                              *)
(***************************************************************************)
MaxStemLen == 2
StemAlphabet == {"a", " ", "_", "."}
Endings == { << >>, <<".","s","q","l">>, <<".","S","Q","L">>, <<".","D","d","l">>, <<".","t","x","t">>, <<".","s","q","l",".","b","a","k">>, <<".">> }

\* the file names: "", "." and ".." name directories and are left out
Paths(max) ==
    {s \o e : s \in Strings(StemAlphabet, max), e \in Endings}
        \ { << >>, <<".">>, <<".",".">> }

FileTexts ==
    { DefaultText,
      AnnotationLine(K.sqlDialect, <<"5">>),
      AnnotationLine(K.title, <<"m","y"," ","f","i","l","e">>) \o <<"\n">> \o DefaultText }

InitFile ==
    /\ pc = "file"
    /\ file_path \in Paths(MaxStemLen)
    /\ \/ files = << >>
       \/ \E text \in FileTexts : files = << Item(file_path, text) >>
    /\ value = << >>
    /\ converted = None
    /\ sql_content = << >>
    /\ comments = << >>
    /\ comment_annotations = << >>
    /\ annotations = << >>
    /\ library = None
    /\ raised = "none"
    /\ doc = None
    /\ pruned = << >>
    /\ caller_annotations = << >>
    /\ calls = 0
    /\ sql_files = << >>
    /\ libraries = << >>

ParseFile ==
    /\ pc = "file"
    /\ \E call \in {parse_file(files, file_path)} :
          /\ raised' = call.raised
          /\ annotations' = call.annotations
    /\ pc' = "parsed_file"
    /\ UNCHANGED <<value, converted, sql_content, comments, comment_annotations,
                   library, doc, pruned, files, file_path, sql_files, libraries>>
    /\ UNCHANGED call_vars

BuildLibraryFromFile ==
    /\ pc = "file"
    /\ \E library_id \in {<< >>} \cup LibraryIds :
          \E call \in {build_library_from_file(files, file_path, library_id)} :
              /\ raised' = call.raised
              /\ library' = call.library
    /\ pc' = "built_file"
    /\ UNCHANGED <<value, converted, sql_content, comments, comment_annotations,
                   annotations, doc, pruned, files, file_path, sql_files,
                   libraries>>
    /\ UNCHANGED call_vars

NextFile == ParseFile \/ BuildLibraryFromFile

SpecFile == InitFile /\ [][NextFile]_vars

(***************************************************************************)
(* Claims about the calls that read files (checked under SpecFile).        *)
(***************************************************************************)
\* the path ends, whatever the case of its letters, with .sql or .ddl, and
\* holds more than that
EndsAsSqlFile ==
    /\ Len(file_path) > 4
    /\ lower(SubSeq(file_path, Len(file_path) - 3, Len(file_path)))
           \in { <<".","s","q","l">>, <<".","d","d","l">> }

PathExists == \E i \in DOMAIN files : files[i].k = file_path

\* C13: parse_file raises FileNotFoundError on a path that does not exist,
\* whatever its suffix, and ValueError on a path that exists and whose suffix
\* is neither .sql nor .ddl in any case of the letters; otherwise it returns
\* parse_content of the text of the file.  build_library_from_file raises the
\* same two exceptions and returns no document then.
C13_FileErrors ==
    /\ pc = "parsed_file" =>
          /\ ~PathExists => (raised = "FileNotFoundError" /\ annotations = None)
          /\ (PathExists /\ ~EndsAsSqlFile) =>
                (raised = "ValueError" /\ annotations = None)
          /\ (PathExists /\ EndsAsSqlFile) =>
                (raised = "none" /\ annotations = parse_content(files[1].v))
    /\ pc = "built_file" =>
          /\ ~PathExists => (raised = "FileNotFoundError" /\ library = None)
          /\ (PathExists /\ ~EndsAsSqlFile) =>
                (raised = "ValueError" /\ library = None)

\* a path that does not exist and has the wrong suffix
C13_Witness ==
    /\ pc = "parsed_file"
    /\ file_path = <<"a",".","t","x","t">>
    /\ files = << >>
    /\ raised = "FileNotFoundError"

(***************************************************************************)
(* SpecBatch: one call of build_multiple_libraries on a list of paths,     *)
(* each naming a file of the file system or nothing.                       *)
(***************************************************************************)
MaxSources == 2
BatchPaths == << <<"a"," ","b",".","s","q","l">>, <<"x",".","t","x","t">>, <<"c","_","d",".","S","Q","L">> >>

\* the file system that holds texts[i] at BatchPaths[i] for the i of present
FileSystem(present, texts) ==
    [j \in DOMAIN Ascending(present) |->
        Item(BatchPaths[Ascending(present)[j]], texts[Ascending(present)[j]])]

InitBatch ==
    /\ pc = "batch"
    /\ \E present \in SUBSET DOMAIN BatchPaths :
          \E texts \in [present -> FileTexts] :
              files = FileSystem(present, texts)
    /\ sql_files \in Strings(Range(BatchPaths), MaxSources)
    /\ libraries = << >>
    /\ file_path = << >>
    /\ value = << >>
    /\ converted = None
    /\ sql_content = << >>
    /\ comments = << >>
    /\ comment_annotations = << >>
    /\ annotations = << >>
    /\ library = None
    /\ raised = "none"
    /\ doc = None
    /\ pruned = << >>
    /\ caller_annotations = << >>
    /\ calls = 0

\* the try statement of the loop catches every Exception: the call returns
BuildMultipleLibraries ==
    /\ pc = "batch"
    /\ libraries' = build_multiple_libraries(files, sql_files)
    /\ raised' = "none"
    /\ pc' = "built_batch"
    /\ UNCHANGED <<value, converted, sql_content, comments, comment_annotations,
                   annotations, library, doc, pruned, files, file_path,
                   sql_files>>
    /\ UNCHANGED call_vars

NextBatch == BuildMultipleLibraries

SpecBatch == InitBatch /\ [][NextBatch]_vars

(***************************************************************************)
(* Claims about the batch (checked under SpecBatch).                       *)
(***************************************************************************)
\* source i built on its own
Alone(i) == build_library_from_file(files, sql_files[i], << >>)

\* C14: build_multiple_libraries returns, for n sources, n documents in the
\* order of the sources: the library of source i when source i builds on its
\* own, and otherwise a placeholder of id error-<stem>, status unknown and
\* one extension, whose valueString is the text of the exception; no
\* document depends on the other sources.
C14_OneDocumentPerSource ==
    pc = "built_batch" =>
        /\ raised = "none"
        /\ Len(libraries) = Len(sql_files)
        /\ \A i \in DOMAIN sql_files :
              IF Alone(i).raised = "none"
              THEN libraries[i] = Alone(i).library
              ELSE /\ Field(libraries[i], "id") =
                          MkStr(<<"e","r","r","o","r","-">> \o stem(sql_files[i]))
                   /\ Field(libraries[i], "status") = MkStr(<<"u","n","k","n","o","w","n">>)
                   /\ Len(Field(libraries[i], "extension").l) = 1
                   /\ Field(Field(libraries[i], "extension").l[1], "valueString")
                          = MkStr(Alone(i).message)
                   /\ Alone(i).message # << >>

\* a source with the wrong suffix, then a source that builds
C14_Witness ==
    /\ pc = "built_batch"
    /\ sql_files = << <<"x",".","t","x","t">>, <<"a"," ","b",".","s","q","l">> >>
    /\ files = << Item(<<"a"," ","b",".","s","q","l">>, DefaultText), Item(<<"x",".","t","x","t">>, DefaultText) >>
    /\ Len(libraries) = 2
    /\ Field(libraries[1], "id") = MkStr(<<"e","r","r","o","r","-","x">>)
    /\ Field(Field(libraries[1], "extension").l[1], "valueString")
          = MkStr(<<"E","x","p","e","c","t","e","d"," ","S","Q","L"," ","f","i","l","e",","," ","g","o","t",":"," ",".","t","x","t">>)
    /\ Field(libraries[2], "id") = MkStr(<<"a","-","b">>)
    /\ Field(libraries[2], "status") = MkStr(<<"d","r","a","f","t">>)

(***************************************************************************)
(* Claims about the extensions and the mapped fields (checked under        *)
(* SpecBuild).                                                             *)
(***************************************************************************)
\* the items of the annotation map the claim gives an extension: the key is
\* not handled otherwise, the value is not null, its string form is not
\* blank and it is no empty list
GivenExtension(item) ==
    /\ item.k \notin Range(keys(annotation_mappings))
    /\ item.k \notin {K.relatedDependency, K.sqlDialect}
    /\ ~isinstance(item.v, "none")
    /\ strip(pystr(item.v)) # << >>
    /\ ~(isinstance(item.v, "list") /\ item.v.l = << >>)

\* the one value field of the extension of the value v
ValueField(v) ==
    IF isinstance(v, "bool") THEN Item("valueBoolean", v)
    ELSE IF isinstance(v, "int") THEN Item("valueInteger", v)
    ELSE IF isinstance(v, "float") THEN Item("valueDecimal", v)
    ELSE IF isinstance(v, "list")
    THEN Item("valueString",
              MkStr(join(<<","," ">>, [n \in DOMAIN v.l |-> pystr(v.l[n])])))
    ELSE Item("valueString", MkStr(pystr(v)))

Extensions ==
    IF HasField(library, "extension") THEN Field(library, "extension").l
    ELSE << >>

\* C15: the document holds one extension per item of the annotation map
\* whose key is not handled otherwise and whose value is not null, not blank
\* and no empty list, in the order of the map; each holds the url
\* .../sql-<key> and exactly one value field, named after the type of the
\* value.
C15_OneValuePerExtension ==
    Built =>
        LET extended == SelectSeq(annotations, GivenExtension)
        IN  /\ Len(Extensions) = Len(extended)
            /\ \A i \in DOMAIN extended :
                  Extensions[i] =
                      MkDict(<< Item("url", MkStr(<<"h","t","t","p",":","/","/","e","x","a","m","p","l","e",".","o","r","g","/","f","h","i","r","/","S","t","r","u","c","t","u","r","e","D","e","f","i","n","i","t","i","o","n","/","s","q","l","-">> \o extended[i].k)),
                                ValueField(extended[i].v) >>)

\* a list of tags, one of them empty, joined into one valueString
C15_Witness ==
    /\ Built
    /\ annotations = << Item(K.tags, MkList(<< MkStr(<<"x">>), MkStr(<< >>), MkStr(<<" ","y"," ">>) >>)) >>
    /\ Extensions = << MkDict(<< Item("url", MkStr(<<"h","t","t","p",":","/","/","e","x","a","m","p","l","e",".","o","r","g","/","f","h","i","r","/","S","t","r","u","c","t","u","r","e","D","e","f","i","n","i","t","i","o","n","/","s","q","l","-","t","a","g","s">>)),
                                 Item("valueString", MkStr(<<"x",","," ",","," "," ","y"," ">>)) >>) >>

\* C16: the document holds the experimental annotation when its value is a
\* boolean, and holds no experimental field when the value is of any other
\* type or the annotation is absent.
C16_ExperimentalOnlyBoolean ==
    Built =>
        IF has_key(annotations, K.experimental)
           /\ isinstance(get(annotations, K.experimental), "bool")
        THEN /\ HasField(library, "experimental")
             /\ Field(library, "experimental") = get(annotations, K.experimental)
        ELSE ~HasField(library, "experimental")

\* the text says true: the document holds the boolean
C16_Witness ==
    /\ Built
    /\ sql_content = AnnotationLine(K.experimental, <<"t","r","u","e">>)
    /\ annotations = << Item(K.experimental, MkBool(TRUE)) >>
    /\ Field(library, "experimental") = MkBool(TRUE)

\* the first of the formats, in their order, that parses s; 0 when none does
FirstFormat(s) ==
    IF \E f \in DOMAIN common_formats : strptime(s, common_formats[f]).ok
    THEN Min({f \in DOMAIN common_formats : strptime(s, common_formats[f]).ok})
    ELSE 0

\* YYYY-MM-DD: the year of four digits, the month and the day of two
IsoDate(date) ==
    LET pad(n, width) == zeros(width - Len(intdigits(n))) \o intdigits(n)
    IN  pad(date.year, 4) \o <<"-">> \o pad(date.month, 2) \o <<"-">> \o pad(date.day, 2)

DateGiven ==
    has_key(annotations, K.date) /\ isinstance(get(annotations, K.date), "str")

\* C17: the date of the document is the date annotation, read by the first
\* of the six formats that parses it and written as YYYY-MM-DD, or the
\* annotation as it is when no format parses it; normalizing the date of the
\* document again returns it unchanged.
C17_FirstFormatWins ==
    (Built /\ DateGiven) =>
        LET raw == get(annotations, K.date).s
        IN  /\ HasField(library, "date")
            /\ Field(library, "date") =
                  MkStr(IF FirstFormat(raw) = 0 THEN raw
                        ELSE IsoDate(strptime(raw, common_formats[FirstFormat(raw)])))
            /\ _format_date(Field(library, "date").s) = Field(library, "date").s

\* 03/04/2024 parses as month/day and as day/month: month/day wins
C17_Witness ==
    /\ Built
    /\ sql_content = AnnotationLine(K.date, <<"0","3","/","0","4","/","2","0","2","4">>)
    /\ Field(library, "date") = MkStr(<<"2","0","2","4","-","0","3","-","0","4">>)

\* the date a string value is normalized to
Normalized(raw) ==
    IF FirstFormat(raw) = 0 THEN raw
    ELSE strftime(strptime(raw, common_formats[FirstFormat(raw)]))

\* C18: a string-valued approvalDate or lastReviewDate annotation is held by
\* the document normalized as the date annotation is: written as YYYY-MM-DD
\* when one of the formats parses it, unchanged otherwise.
C18_DateLikeKeysNormalized ==
    Built =>
        \A key \in {K.approvalDate, K.lastReviewDate} :
            (has_key(annotations, key) /\ isinstance(get(annotations, key), "str")) =>
                \E m \in DOMAIN annotation_mappings :
                    /\ annotation_mappings[m].k = key
                    /\ HasField(library, annotation_mappings[m].v)
                    /\ Field(library, annotation_mappings[m].v) =
                          MkStr(Normalized(get(annotations, key).s))

\* an approval date no format parses is held as it is
C18_Witness ==
    /\ Built
    /\ sql_content = AnnotationLine(K.approvalDate, <<"h","i","v","e">>)
    /\ Field(library, "approvalDate") = MkStr(<<"h","i","v","e">>)

Parameters ==
    IF HasField(library, "parameter") THEN Field(library, "parameter").l
    ELSE << >>

ParametersGiven ==
    has_key(annotations, K.parameters)
        /\ isinstance(get(annotations, K.parameters), "list")

\* C19 as the spec states it: one entry per item of the parameters list, in
\* item order, of name the string form of the item and of type string, and
\* no parameter field when the text has no parameters annotation.
C19_AsStated ==
    /\ (Built /\ ParametersGiven) =>
          LET params == get(annotations, K.parameters).l
          IN  /\ Len(Parameters) = Len(params)
              /\ \A i \in DOMAIN params :
                    /\ HasField(Parameters[i], "name")
                    /\ Field(Parameters[i], "name") = MkStr(pystr(params[i]))
                    /\ Field(Parameters[i], "type") = MkStr(<<"s","t","r","i","n","g">>)
    /\ (Built /\ FromText /\ ~has_key(annotations, K.parameters)) =>
          ~HasField(library, "parameter")

\* C19: one entry per item of the parameters list, in item order, each of
\* type string; its name is the string form of the item when that is not
\* blank, and it has no name when it is; no parameter field when the text
\* has no parameters annotation.
C19_OneEntryPerParameter ==
    /\ (Built /\ ParametersGiven) =>
          LET params == get(annotations, K.parameters).l
          IN  /\ Len(Parameters) = Len(params)
              /\ \A i \in DOMAIN params :
                    /\ Field(Parameters[i], "type") = MkStr(<<"s","t","r","i","n","g">>)
                    /\ IF strip(pystr(params[i])) # << >>
                       THEN /\ HasField(Parameters[i], "name")
                            /\ Field(Parameters[i], "name") = MkStr(pystr(params[i]))
                       ELSE ~HasField(Parameters[i], "name")
    /\ (Built /\ FromText /\ ~has_key(annotations, K.parameters)) =>
          ~HasField(library, "parameter")

\* a comma list with an empty part: three entries, the second without a name
C19_Witness ==
    /\ Built
    /\ sql_content = AnnotationLine(K.parameters, <<"a",",",",","b">>)
    /\ Parameters = << MkDict(<< Item("name", MkStr(<<"a">>)), Item("type", MkStr(<<"s","t","r","i","n","g">>)) >>),
                       MkDict(<< Item("type", MkStr(<<"s","t","r","i","n","g">>)) >>),
                       MkDict(<< Item("name", MkStr(<<"b">>)), Item("type", MkStr(<<"s","t","r","i","n","g">>)) >>) >>

\* the FHIR name of a declared parameter type
FhirType(declared) ==
    IF declared = <<"s","t","r">> THEN <<"s","t","r","i","n","g">>
    ELSE IF declared = <<"i","n","t">> THEN <<"i","n","t","e","g","e","r">>
    ELSE IF declared = <<"f","l","o","a","t">> THEN <<"d","e","c","i","m","a","l">>
    ELSE IF declared = <<"b","o","o","l">> THEN <<"b","o","o","l","e","a","n">>
    ELSE declared

\* C20: a `@param: <name> [<type>]` annotation yields a parameter entry of
\* that name, of use in and of the declared type under its FHIR name (string
\* when no type is written), and every parameter entry of the document
\* carries use in.
C20_ParamEntries ==
    Built =>
        /\ (has_key(annotations, K.param) /\ isinstance(get(annotations, K.param), "str")) =>
              LET words == splitws(get(annotations, K.param).s, 1)
              IN  \E i \in DOMAIN Parameters :
                      /\ Field(Parameters[i], "name") = MkStr(words[1])
                      /\ Field(Parameters[i], "use") = MkStr(<<"i","n">>)
                      /\ Field(Parameters[i], "type") =
                            MkStr(IF Len(words) >= 2 THEN FhirType(words[2])
                                  ELSE <<"s","t","r","i","n","g">>)
        /\ \A i \in DOMAIN Parameters :
              /\ HasField(Parameters[i], "use")
              /\ Field(Parameters[i], "use") = MkStr(<<"i","n">>)

\* the declaration of a parameter ends up in an extension, and the document
\* has no parameter list
C20_Witness ==
    /\ Built
    /\ sql_content = AnnotationLine(K.param, <<"a","g","e"," ","i","n","t","e","g","e","r">>)
    /\ annotations = << Item(K.param, MkStr(<<"a","g","e"," ","i","n","t","e","g","e","r">>)) >>
    /\ ~HasField(library, "parameter")
    /\ Extensions = << MkDict(<< Item("url", MkStr(<<"h","t","t","p",":","/","/","e","x","a","m","p","l","e",".","o","r","g","/","f","h","i","r","/","S","t","r","u","c","t","u","r","e","D","e","f","i","n","i","t","i","o","n","/","s","q","l","-","p","a","r","a","m">>)),
                                 Item("valueString", MkStr(<<"a","g","e"," ","i","n","t","e","g","e","r">>)) >>) >>

(***************************************************************************)
(* Claims about the structure of the document (checked under SpecBuild).   *)
(***************************************************************************)
\* the character of a code from 9 to 126
Chr(n) ==
    IF n = 9 THEN "\t" ELSE IF n = 10 THEN "\n" ELSE IF n = 13 THEN "\r"
    ELSE Printable[n - 31]

\* base64 decoding, for the ASCII characters
RECURSIVE B64Decode(_)
B64Decode(s) ==
    IF Len(s) < 4 THEN << >>
    ELSE LET sextet(c) == IF c = "=" THEN 0
                          ELSE (CHOOSE i \in DOMAIN Base64Chars : Base64Chars[i] = c) - 1
             n == (sextet(s[1]) * 262144) + (sextet(s[2]) * 4096)
                  + (sextet(s[3]) * 64) + sextet(s[4])
             bytes == << n \div 65536, (n \div 256) % 256, n % 256 >>
             count == IF s[3] = "=" THEN 1 ELSE IF s[4] = "=" THEN 2 ELSE 3
         IN  [i \in 1..count |-> Chr(bytes[i])] \o B64Decode(SubSeq(s, 5, Len(s)))

\* C21: every document build_library_from_content returns holds
\* resourceType Library, an id, the status (the status annotation, draft
\* without one), a type, and one content entry with a contentType and the
\* data, the base64 encoding of the text, which decodes to the text.
C21_StructuralFieldsKept ==
    Built =>
        /\ HasField(library, "resourceType")
        /\ Field(library, "resourceType") = MkStr(<<"L","i","b","r","a","r","y">>)
        /\ HasField(library, "id")
        /\ Field(library, "id").s \in LibraryIds
        /\ HasField(library, "status")
        /\ Field(library, "status") =
              (IF has_key(annotations, K.status) THEN get(annotations, K.status)
               ELSE MkStr(<<"d","r","a","f","t">>))
        /\ HasField(library, "type")
        /\ HasField(library, "content")
        /\ Len(Field(library, "content").l) = 1
        /\ HasField(Field(library, "content").l[1], "contentType")
        /\ HasField(Field(library, "content").l[1], "data")
        /\ Field(Field(library, "content").l[1], "data") = MkStr(b64encode(sql_content))
        /\ B64Decode(Field(Field(library, "content").l[1], "data").s) = sql_content

\* a status annotation that is kept, and the data of the default text
C21_Witness ==
    /\ Built
    /\ sql_content = DefaultText
    /\ annotations = << Item(K.status, MkStr(<<" ","A","b","-","c"," ">>)) >>
    /\ Field(library, "status") = MkStr(<<" ","A","b","-","c"," ">>)
    /\ Field(Field(library, "content").l[1], "data") = MkStr(<<"U","0","V","M","R","U","N","U","I","D","E","7">>)
    /\ B64Decode(<<"U","0","V","M","R","U","N","U","I","D","E","7">>) = DefaultText

(***************************************************************************)
(* SpecCalls: a series of build_library_from_content calls on one builder, *)
(* each on the map of the caller or on the annotations it parses itself.   *)
(***************************************************************************)
MaxCalls == 2
\* the maps of the caller: the empty map and every map of one key of
\* BuildKeys with one of SampleValues
CallMaps ==
    { << >> } \cup
    {<< Item(BuildKeys[k], v) >> : k \in DOMAIN BuildKeys, v \in SampleValues}
CallTexts == { DefaultText, AnnotationLine(K.jurisdiction, <<"u","s",","," ","c","a">>) }

InitCalls ==
    /\ pc = "call"
    /\ sql_content \in CallTexts
    /\ annotations \in CallMaps
    /\ caller_annotations = annotations
    /\ calls = 0
    /\ value = << >>
    /\ converted = None
    /\ comments = << >>
    /\ comment_annotations = << >>
    /\ library = None
    /\ raised = "none"
    /\ doc = None
    /\ pruned = << >>
    /\ files = << >>
    /\ file_path = << >>
    /\ sql_files = << >>
    /\ libraries = << >>

\* build_library_from_content(sql_content, annotations)
BuildCallWithMap ==
    /\ calls < MaxCalls
    /\ pc \in {"call", "called_with_map", "called_with_text"}
    /\ \E library_id \in LibraryIds, filename \in Filenames :
          \E call \in {build_library_from_content(sql_content, annotations,
                                                  library_id, filename)} :
              /\ raised' = call.raised
              /\ library' = call.library
    /\ annotations' = annotations_after_build(annotations)
    /\ calls' = calls + 1
    /\ pc' = "called_with_map"
    /\ UNCHANGED <<value, converted, sql_content, comments, comment_annotations,
                   doc, pruned, caller_annotations>>
    /\ UNCHANGED file_vars

\* build_library_from_content(sql_content): the annotations are those
\* parse_content returns, a map of the call
BuildCallWithText ==
    /\ calls < MaxCalls
    /\ pc \in {"call", "called_with_map", "called_with_text"}
    /\ comments' = _extract_comments(sql_content)
    /\ comment_annotations' = region_annotations(comments')
    /\ \E library_id \in LibraryIds, filename \in Filenames :
          \E call \in {build_library_from_content(sql_content,
                           merge_comments(<< >>, comment_annotations'),
                           library_id, filename)} :
              /\ raised' = call.raised
              /\ library' = call.library
    /\ calls' = calls + 1
    /\ pc' = "called_with_text"
    /\ UNCHANGED <<value, converted, sql_content, annotations, doc, pruned, caller_annotations>>
    /\ UNCHANGED file_vars

NextCalls == BuildCallWithMap \/ BuildCallWithText

SpecCalls == InitCalls /\ [][NextCalls]_vars

\* the call on a builder that made no call before
Fresh(anns) ==
    build_library_from_content(sql_content, anns,
                               CHOOSE library_id \in LibraryIds : TRUE,
                               CHOOSE filename \in Filenames : TRUE)

MaxLines == 3
ScanLines ==
    { << >>, <<"-","-">>, <<"-","-"," ","@","a",":"," ","x">>, <<" ","@","a",":"," ","x">>, <<"/","*">>, <<"*","/">>, <<" ","y"," ","*","/">>,
      <<"/","*"," ","@","b",":">>, <<"-","-"," ","@","b",":"," ","\"","\"">>, <<"-","-"," ","@","b",":">> }
ScanTexts(max) ==
    {join(<<"\n">>, ls) : ls \in UNION {[1..n -> ScanLines] : n \in 1..max}}

InitScan ==
    /\ pc = "parse"
    /\ sql_content \in ScanTexts(MaxLines)
    /\ value = << >>
    /\ converted = None
    /\ comments = << >>
    /\ comment_annotations = << >>
    /\ annotations = << >>
    /\ library = None
    /\ raised = "none"
    /\ doc = None
    /\ pruned = << >>
    /\ caller_annotations = << >>
    /\ calls = 0
    /\ files = << >>
    /\ file_path = << >>
    /\ sql_files = << >>
    /\ libraries = << >>

NextScan == ParseContent

SpecScan == InitScan /\ [][NextScan]_vars

(***************************************************************************)
(* Claims about the scan of a text (checked under SpecScan).               *)
(***************************************************************************)
\* the text holds a line-comment marker
HasLineMarker == \E i \in 1..Len(sql_content) : at2(sql_content, i, "-", "-")
\* the text holds a block: a start marker with an end marker after it
HasBlock ==
    \E i \in 1..Len(sql_content) : \E j \in (i + 2)..Len(sql_content) :
        at2(sql_content, i, "/", "*") /\ at2(sql_content, j, "*", "/")
\* the text holds "@key: value" somewhere
HasAnnotationText == annotation_matches(sql_content, 1) # << >>

\* C23: for a text with no comment marker (no "--", no "/* ... */" block)
\* parse_content returns the empty map, also when the text holds
\* "@key: value" outside comments.
C23_NoMarkerNoAnnotations ==
    pc = "parsed" /\ ~HasLineMarker /\ ~HasBlock => annotations = << >>

\* an annotation after a block start that nothing closes
C23_Witness ==
    /\ pc = "parsed"
    /\ sql_content = <<"/","*">> \o <<"\n">> \o <<" ","@","a",":"," ","x">>
    /\ ~HasLineMarker /\ ~HasBlock
    /\ HasAnnotationText
    /\ annotations = << >>

\* the regions of the line comments come first in comments, the regions of
\* the block comments after them
LineRegionCount == Len(single_line_comments(sql_content, 1))
BlockRegions == {i \in DOMAIN comments : i > LineRegionCount}

\* position e of region t is where a value may end: after the whitespace
\* that follows comes "@", "--", "*/" or the end of the region
AtTerminator(t, e) ==
    LET w == wsend(t, e)
    IN  w > Len(t) \/ t[w] = "@" \/ at2(t, w, "-", "-") \/ at2(t, w, "*", "/")

\* every value matched in region t from pos on ends at a terminator
RECURSIVE ValuesUpToTerminator(_, _)
ValuesUpToTerminator(t, pos) ==
    IF pos > Len(t) THEN TRUE
    ELSE IF ~(t[pos] = "@" /\ wordend(t, pos + 1) > pos + 1
              /\ value_start(t, wordend(t, pos + 1)) # 0)
         THEN ValuesUpToTerminator(t, pos + 1)
    ELSE LET e == value_end(t, value_start(t, wordend(t, pos + 1)))
         IN  AtTerminator(t, e) /\ ValuesUpToTerminator(t, e)

\* C24: inside a block comment the value of an annotation extends across
\* line breaks up to the next "@", the next "--", the next "*/" or the end
\* of the region; a value that continues on the following lines is
\* returned in full, not cut at the first line break.
C24_ValueSpansLines ==
    pc = "parsed" => \A i \in BlockRegions : ValuesUpToTerminator(comments[i], 1)

\* a value of two lines in a block comment, of which the first is stored
C24_Witness ==
    /\ pc = "parsed"
    /\ sql_content = <<"/","*">> \o <<"\n">> \o <<" ","@","a",":"," ","x">> \o <<"\n">> \o <<" ","y"," ","*","/">>
    /\ comments = << <<"@","a",":"," ","x">> \o <<"\n">> \o <<" ","y">> >>
    /\ annotations = << Item(<<"a">>, MkStr(<<"x">>)) >>

\* C25: parse_content never stores a key whose value is an empty string: an
\* annotation with nothing between its separator and the next "@", comment
\* marker, line end or region end contributes no key, in line comments and
\* in block comments alike.
C25_NoEmptyStringStored ==
    pc = "parsed" => \A i \in DOMAIN annotations : annotations[i].v # MkStr(<< >>)

\* an annotation with no value, followed by an indented annotation on the
\* next line of the block comment
C25_Witness ==
    /\ pc = "parsed"
    /\ sql_content = <<"/","*"," ","@","b",":">> \o <<"\n">> \o <<" ","@","a",":"," ","x">> \o <<"\n">> \o <<"*","/">>
    /\ annotations = << Item(<<"b">>, MkStr(<< >>)), Item(<<"a">>, MkStr(<<"x">>)) >>

\* the line-comment regions the physical lines give: for every line that
\* holds "--", the rest of that line after the first one, trimmed
RECURSIVE SameLineRegions(_)
SameLineRegions(lines) ==
    IF lines = << >> THEN << >>
    ELSE LET line == lines[1]
             markers == {i \in 1..Len(line) : at2(line, i, "-", "-")}
         IN  (IF markers = {} THEN << >>
              ELSE << strip(SubSeq(line, Min(markers) + 2, Len(line))) >>)
             \o SameLineRegions(Tail(lines))
NotBlank(region) == region # << >>

\* C27: every line-comment region of _extract_comments consists only of text
\* of the physical line of its "--" marker, the marker excluded and the
\* whitespace around trimmed; it never holds text of a following line, also
\* when nothing but whitespace follows the marker on its line.
C27_LineRegionsStayOnLine ==
    pc = "parsed" =>
        SelectSeq(SubSeq(comments, 1, LineRegionCount), NotBlank)
            = SelectSeq(SameLineRegions(split(sql_content, "\n", 1)), NotBlank)

\* a marker with nothing after it on its line, and an annotation on the
\* next line, outside every comment
C27_Witness ==
    /\ pc = "parsed"
    /\ sql_content = <<"-","-">> \o <<"\n">> \o <<" ","@","a",":"," ","x">>
    /\ comments = << <<"@","a",":"," ","x">> >>
    /\ annotations = << Item(<<"a">>, MkStr(<<"x">>)) >>

(***************************************************************************)
(* Claims about the shape and the order of the parsed values (checked      *)
(* under SpecParse).                                                       *)
(***************************************************************************)
IsScalar(v) == v.t \in {"bool", "int", "float", "str"}
IsScalarList(v) == v.t = "list" /\ \A i \in DOMAIN v.l : IsScalar(v.l[i])
\* the coerced value of every occurrence is a scalar or a list of scalars
PartsNotSplitAgain ==
    \A i \in DOMAIN comments :
        \E ms \in {annotation_matches(comments[i], 1)} :
            \A j \in DOMAIN ms :
                \E part \in {_convert_value(strip(ms[j].value))} :
                    IsScalar(part) \/ IsScalarList(part)

\* C26 as stated: every value of the map is a scalar or a list of scalars,
\* no list contains a list, and a part produced by comma-splitting is never
\* split again.
C26_AsStated ==
    pc = "parsed" =>
        /\ \A i \in DOMAIN annotations :
              IsScalar(annotations[i].v) \/ IsScalarList(annotations[i].v)
        /\ PartsNotSplitAgain

\* C26: every value of the map is a scalar, or a list whose elements are
\* scalars or lists of scalars; no list contains a list that contains a
\* list, for any combination of comma lists and of keys repeated within one
\* region or across regions; a part produced by comma-splitting is never
\* split again.
C26_ListsNestOnce ==
    pc = "parsed" =>
        /\ \A i \in DOMAIN annotations :
              \/ IsScalar(annotations[i].v)
              \/ /\ annotations[i].v.t = "list"
                 /\ \A j \in DOMAIN annotations[i].v.l :
                       \/ IsScalar(annotations[i].v.l[j])
                       \/ IsScalarList(annotations[i].v.l[j])
        /\ PartsNotSplitAgain

\* a key of a line comment, repeated in a block comment that holds it twice,
\* the second time with a comma list
C26_Witness ==
    /\ pc = "parsed"
    /\ Len(comments) = 2
    /\ annotations =
          << Item(K.status, MkList(<< MkStr(<<"a">>), MkStr(<<"a">>),
                 MkList(<< MkStr(<<"b">>), MkStr(<< >>), MkStr(<<"c">>) >>) >>)) >>

\* the values of key in the regions from..to, each wrapped as a list when it
\* is none, concatenated in the order of the regions
RECURSIVE ConcatenatedIn(_, _, _)
ConcatenatedIn(key, from, to) ==
    IF from > to THEN << >>
    ELSE (IF has_key(RegionMap(from), key) THEN aslist(get(RegionMap(from), key))
          ELSE << >>) \o ConcatenatedIn(key, from + 1, to)

\* the line comments of the text, in text order, and how many block starts
\* the text holds
LineComments == SameLineRegions(split(sql_content, "\n", 1))
BlockStarts == {i \in 1..Len(sql_content) : at2(sql_content, i, "/", "*")}

\* C28: parse_content scans every line comment, in text order, before any
\* block comment, wherever they stand in the text: a key of a block comment
\* and of a line comment holds the values of the line comments first and
\* the values of the block comments after them.
C28_LineCommentsScannedFirst ==
    pc = "parsed" =>
        \E lines \in {LineComments} :
            /\ Len(comments) = Len(lines) + Cardinality(BlockStarts)
            /\ SubSeq(comments, 1, Len(lines)) = lines
            /\ \A key \in AllKeys :
                  (/\ \E i \in RegionsWith(key) : i <= Len(lines)
                   /\ \E i \in RegionsWith(key) : i > Len(lines))
                  => get(annotations, key) =
                        MkList(ConcatenatedIn(key, 1, Len(lines))
                               \o ConcatenatedIn(key, Len(lines) + 1, Len(comments)))

\* a block comment, then a line comment with the same key
C28_Witness ==
    /\ pc = "parsed"
    /\ sql_content = <<"/","*"," ","@","s","t","a","t","u","s",":"," ","a"," ","*","/">> \o <<"\n">> \o <<"-","-"," ","@","s","t","a","t","u","s",":"," ","b",",",",","c">>
    /\ comments = << <<"@","s","t","a","t","u","s",":"," ","b",",",",","c">>, <<"@","s","t","a","t","u","s",":"," ","a">> >>
    /\ annotations =
          << Item(K.status, MkList(<< MkStr(<<"b">>), MkStr(<< >>), MkStr(<<"c">>),
                                      MkStr(<<"a">>) >>)) >>

(***************************************************************************)
(* Claims about the quotes of a value (checked under SpecConvert).         *)
(***************************************************************************)
\* v is no boolean word, no number and holds no comma
IsPlain(v) == lower(v) \notin BoolWords /\ ~numeric_parses(v) /\ ~contains(v, ",")
\* v is wrapped in a pair of double quotes or of single quotes: an opening
\* and a closing quote that are two characters
IsWrapped(v) ==
    /\ Len(v) >= 2
    /\ \/ v[1] = "\"" /\ v[Len(v)] = "\""
       \/ v[1] = "'" /\ v[Len(v)] = "'"

\* C29: a string that is no boolean word, no number and holds no comma
\* converts to itself without its outer pair of quotes when it is wrapped
\* in one, with no further coercion, and to itself in every other case (a
\* lone quote, quotes that do not match); a quoted string that holds a comma
\* is split as a list before the quotes are looked at.
C29_OuterQuotesRemoved ==
    pc = "converted" =>
        LET v == strip(value)
        IN  /\ IsPlain(v) /\ IsWrapped(v) => converted = MkStr(SubSeq(v, 2, Len(v) - 1))
            /\ IsPlain(v) /\ ~IsWrapped(v) => converted = MkStr(v)
            /\ IsWrapped(v) /\ contains(v, ",") => converted = CoercedParts(v)

\* a lone quote converts to the empty string
C29_Witness ==
    /\ pc = "converted"
    /\ value = <<"\"">>
    /\ converted = MkStr(<< >>)

(***************************************************************************)
(* Claims about the known keys the builder does not accept (checked under  *)
(* SpecBuild).                                                             *)
(***************************************************************************)
KnownKeys == Range(keys(annotation_mappings))
UrlPrefix ==
    <<"h","t","t","p",":","/","/","e","x","a","m","p","l","e",".","o","r","g","/","f","h","i","r","/","S","t","r","u","c","t","u","r","e","D","e","f","i","n","i","t","i","o","n","/","s","q","l","-">>
ExtensionUrl(key) == MkStr(UrlPrefix \o key)
\* the key an extension is named after: what follows the prefix in its url
ExtensionKey(extension) ==
    SubSeq(Field(extension, "url").s, Len(UrlPrefix) + 1, Len(Field(extension, "url").s))

\* a known key other than status whose value is no string and is accepted
\* by no special case
NotAccepted(item) ==
    /\ item.k \in KnownKeys
    /\ item.k # K.status
    /\ ~isinstance(item.v, "str")
    /\ ~(item.k = K.experimental /\ isinstance(item.v, "bool"))
    /\ ~(item.k = K.jurisdiction /\ isinstance(item.v, "list"))

\* the document does not hold the field the key of the item is mapped to,
\* unless it is the type classification every document holds or the name
\* derived from the title
FieldNotFromValue(item) ==
    \E fhir_key \in {get(annotation_mappings, item.k)} :
        \/ ~HasField(library, fhir_key)
        \/ fhir_key = "type" /\ isinstance(Field(library, fhir_key), "dict")
        \/ /\ fhir_key = "name"
           /\ HasField(library, "title")
           /\ Field(library, "name")
                 = MkStr(_camel_case_title(Field(library, "title").s))

\* C30: no extension is emitted for a key of the known-key table, for
\* relatedDependency or for sqlDialect; the value of a known key other than
\* status that is no string and is accepted by no special case appears
\* neither as its mapped field nor as an extension.
C30_KnownKeysGiveNoExtension ==
    Built =>
        /\ \A i \in DOMAIN Extensions :
              /\ Field(Extensions[i], "url") = ExtensionUrl(ExtensionKey(Extensions[i]))
              /\ ExtensionKey(Extensions[i])
                    \notin KnownKeys \cup {K.relatedDependency, K.sqlDialect}
        /\ \A i \in DOMAIN annotations :
              NotAccepted(annotations[i]) => FieldNotFromValue(annotations[i])

\* an author that is a list, next to tags that give an extension
C30_Witness ==
    /\ Built
    /\ annotations =
          << Item(K.author, MkList(<< MkStr(<<"x">>), MkStr(<< >>), MkStr(<<" ","y"," ">>) >>)),
             Item(K.tags, MkInt(12)) >>
    /\ ~HasField(library, "author")
    /\ Len(Extensions) = 1
    /\ Field(Extensions[1], "url") = ExtensionUrl(K.tags)

====
